---- MODULE Spec2Model ----
(***************************************************************************)
(* png2svg: the SVG optimizer (svgOptimizer) and the SVG formatter         *)
(* (formatSvgString), modelled as functions over strings, the file         *)
(* validator and the download helper, the converter (convertPngToSvg), the *)
(* hooks useImageConverter and useClipboard, the Home page and the         *)
(* ImagePreview component.  A string is a                                  *)
(* sequence of one-character strings, so that the regular expressions of   *)
(* the source are matched character by character.                          *)
(***************************************************************************)
EXTENDS Integers, Sequences, FiniteSets, TLC

VARIABLES
    src,    \* the string the caller started from
    svg,    \* the string the caller holds: src, or the result of the last call
    arg,    \* the argument of the last call
    opts,   \* the options of the last call
    hist,   \* the names of the functions called so far, in order
    state,  \* the state of the hook, component or conversion a specification is about
    calls,  \* the calls of the hook's asynchronous function so far, in order
    urls,   \* the object URLs created so far: each "live" or "revoked"
    timers, \* the timeouts set and not yet fired or cleared
    now     \* the time, in the unit the timeouts are counted in

\* the browser's part of the state
browser == <<urls, timers, now>>

vars == <<src, svg, arg, opts, hist, state, calls, urls, timers, now>>

\* ------------------------------------------------------------------------
\* Character classes of the JavaScript regular expressions

\* \d
Digit == {"0", "1", "2", "3", "4", "5", "6", "7", "8", "9"}

\* \s (the white space the inputs use)
Space == {" ", "\n", "\t"}

UpperCase == <<"A", "B", "C", "D", "E", "F", "G", "H", "I", "J", "K", "L", "M",
               "N", "O", "P", "Q", "R", "S", "T", "U", "V", "W", "X", "Y", "Z">>

LowerCase == <<"a", "b", "c", "d", "e", "f", "g", "h", "i", "j", "k", "l", "m",
               "n", "o", "p", "q", "r", "s", "t", "u", "v", "w", "x", "y", "z">>

\* [a-zA-Z]
Letter == {UpperCase[k] : k \in 1..26} \cup {LowerCase[k] : k \in 1..26}

\* \w
WordChar == Letter \cup Digit \cup {"_"}

\* the canonical form the i flag compares characters in
Canonicalize(c) ==
    IF \E k \in 1..26 : LowerCase[k] = c
    THEN UpperCase[CHOOSE k \in 1..26 : LowerCase[k] = c]
    ELSE c

\* [MLHVCSQTAZ] under the i flag
CommandLetter(c) == Canonicalize(c) \in {"M", "L", "H", "V", "C", "S", "Q", "T", "A", "Z"}

\* ------------------------------------------------------------------------
\* String primitives

\* s.slice(i - 1, j - 1): the characters i .. j-1
Slice(s, i, j) == IF j <= i THEN <<>> ELSE SubSeq(s, i, j - 1)

\* whether p occurs in s at position i
StartsAt(s, i, p) ==
    /\ i >= 1
    /\ i + Len(p) - 1 <= Len(s)
    /\ \A k \in 1..Len(p) : s[i + k - 1] = p[k]

\* whether p occurs in s at position i, compared under the i flag
StartsAtI(s, i, p) ==
    /\ i >= 1
    /\ i + Len(p) - 1 <= Len(s)
    /\ \A k \in 1..Len(p) : Canonicalize(s[i + k - 1]) = Canonicalize(p[k])

\* s.indexOf(p, i - 1) + 1; 0 when p does not occur at or after i
IndexOf(s, p, i) ==
    LET hits == {k \in i..(Len(s) - Len(p) + 1) : StartsAt(s, k, p)}
    IN  IF hits = {} THEN 0 ELSE CHOOSE k \in hits : \A h \in hits : k <= h

Contains(s, p) == IndexOf(s, p, 1) > 0

\* the first position at or after i whose character is not in class; Len(s)+1 at the end
SkipWhile(s, i, class) ==
    LET stops == {k \in i..Len(s) : s[k] \notin class}
    IN  IF stops = {} THEN Len(s) + 1 ELSE CHOOSE k \in stops : \A h \in stops : k <= h

\* the element of a one-element set; Only({F(x) : x \in {e}}) is F(e) with e
\* evaluated once
Only(S) == CHOOSE x \in S : TRUE

\* String.prototype.trim
Trim(s) ==
    LET keep == {k \in 1..Len(s) : s[k] \notin Space}
    IN  IF keep = {} THEN <<>>
        ELSE LET lo == CHOOSE k \in keep : \A h \in keep : k <= h
                 hi == CHOOSE k \in keep : \A h \in keep : k >= h
             IN  SubSeq(s, lo, hi)

RECURSIVE Join(_, _)
\* ss.join(sep)
Join(ss, sep) ==
    IF Len(ss) = 0 THEN <<>>
    ELSE IF Len(ss) = 1 THEN ss[1]
    ELSE ss[1] \o sep \o Join(Tail(ss), sep)

\* ------------------------------------------------------------------------
\* svgOptimizer: the regular expressions of optimizeSvgPaths

\* /<\?xml[^>]*>/gi at position i: the position after the match, 0 when none
MatchXmlDeclaration(s, i) ==
    IF ~StartsAtI(s, i, <<"<", "?", "x", "m", "l">>) THEN 0
    ELSE LET g == IndexOf(s, <<">">>, i + 5)
         IN  IF g = 0 THEN 0 ELSE g + 1


\* /<!--[\s\S]*?-->/g at position i: the position after the match, 0 when none
MatchComment(s, i) ==
    IF ~StartsAt(s, i, <<"<", "!", "-", "-">>) THEN 0
    ELSE LET g == IndexOf(s, <<"-", "-", ">">>, i + 4)
         IN  IF g = 0 THEN 0 ELSE g + 3


\* /\s+/g at position i: the position after the match, 0 when none
MatchWhitespace(s, i) == IF s[i] \in Space THEN SkipWhile(s, i, Space) ELSE 0

\* />\s+</g at position i: the position after the match, 0 when none
MatchInterTagSpace(s, i) ==
    IF ~(s[i] = ">" /\ i + 1 <= Len(s) /\ s[i + 1] \in Space) THEN 0
    ELSE LET e == SkipWhile(s, i + 1, Space)
         IN  IF e <= Len(s) /\ s[e] = "<" THEN e + 1 ELSE 0


\* ------------------------------------------------------------------------
\* roundCoordinates: parseFloat and Number.prototype.toFixed

DigitValue(c) ==
    CASE c = "0" -> 0 [] c = "1" -> 1 [] c = "2" -> 2 [] c = "3" -> 3 [] c = "4" -> 4
      [] c = "5" -> 5 [] c = "6" -> 6 [] c = "7" -> 7 [] c = "8" -> 8 [] c = "9" -> 9

DigitChar(d) == <<"0", "1", "2", "3", "4", "5", "6", "7", "8", "9">>[d + 1]

RECURSIVE Pow10(_)
Pow10(k) == IF k = 0 THEN 1 ELSE 10 * Pow10(k - 1)

RECURSIVE DigitsToNat(_)
\* the value of a string of decimal digits
DigitsToNat(ds) ==
    IF ds = <<>> THEN 0
    ELSE 10 * DigitsToNat(SubSeq(ds, 1, Len(ds) - 1)) + DigitValue(ds[Len(ds)])

RECURSIVE NatToDigits(_)
\* the decimal digits of n, without leading zeros ("0" for 0)
NatToDigits(n) ==
    IF n < 10 THEN <<DigitChar(n)>>
    ELSE NatToDigits(n \div 10) \o <<DigitChar(n % 10)>>

RECURSIVE PadZeros(_, _)
\* ds with zeros in front up to length w
PadZeros(ds, w) == IF Len(ds) >= w THEN ds ELSE PadZeros(<<"0">> \o ds, w)

RECURSIVE BitLength(_)
BitLength(n) == IF n = 0 THEN 0 ELSE 1 + BitLength(n \div 2)

RECURSIVE PowMod(_, _, _)
\* b^e mod m, by squaring
PowMod(b, e, m) ==
    IF e = 0 THEN 1 % m
    ELSE LET h == PowMod(b, e \div 2, m)
         IN  IF e % 2 = 0 THEN (h * h) % m ELSE (((h * h) % m) * b) % m

\* r / D is the part of the value below the bits produced so far, n significand
\* bits are still to be produced, last is the last bit produced.  The result is
\* the sign of (the double nearest the value) - (the value): IEEE 754
\* round-to-nearest, ties to even.  Producing a bit doubles the remainder and
\* takes D off when it reaches D, so the remainder after n bits is r * 2^n mod D.
RoundMantissa(r, D, n, last) ==
    LET before == (r * PowMod(2, n - 1, D)) % D
        bit == IF n = 0 THEN last ELSE IF 2 * before >= D THEN 1 ELSE 0
        rest == IF n = 0 THEN r ELSE 2 * before - bit * D
    IN  IF rest = 0 THEN 0
        ELSE IF 2 * rest < D THEN -1
        ELSE IF 2 * rest > D THEN 1
        ELSE IF bit = 1 THEN 1 ELSE -1

RECURSIVE SkipLeadingZeroBits(_, _)
\* for a value r / D in (0, 1): rounds the 53 significand bits that start at
\* the first 1 bit
SkipLeadingZeroBits(r, D) ==
    IF 2 * r >= D THEN RoundMantissa(2 * r - D, D, 52, 1)
    ELSE SkipLeadingZeroBits(2 * r, D)

RECURSIVE ParseFloatError(_, _)
\* parseFloat: the sign of (the double parseFloat returns for P / 10^k) - P / 10^k
ParseFloatError(P, k) ==
    LET D == Pow10(k)
        whole == P \div D
        frac == P % D
    IN  IF frac = 0 THEN 0
        ELSE IF P % 10 = 0 THEN ParseFloatError(P \div 10, k - 1)
        ELSE IF whole > 0 THEN RoundMantissa(frac, D, 53 - BitLength(whole), whole % 2)
        ELSE SkipLeadingZeroBits(frac, D)

\* parseFloat(match).toFixed(decimalPlaces) for the literal [-]whole.frac:
\* the n for which n / 10^f - x is closest to zero, the larger n of two
ToFixed(negative, whole, frac, decimalPlaces) ==
    LET k == Len(frac)
        P == DigitsToNat(whole \o frac)
        n == IF decimalPlaces >= k THEN P * Pow10(decimalPlaces - k)
             ELSE LET unit == Pow10(k - decimalPlaces)
                      q == P \div unit
                      r == P % unit
                      half == 5 * Pow10(k - decimalPlaces - 1)
                      up == r > half \/ (r = half /\ ParseFloatError(P, k) >= 0)
                  IN  IF up THEN q + 1 ELSE q
        m == PadZeros(NatToDigits(n), decimalPlaces + 1)
        a == Len(m) - decimalPlaces
        sign == IF negative /\ P # 0 THEN <<"-">> ELSE <<>>
    IN  sign \o SubSeq(m, 1, a)
             \o (IF decimalPlaces = 0 THEN <<>> ELSE <<".">> \o SubSeq(m, a + 1, Len(m)))

\* /(-?\d+\.\d+)/g at position i: the position after the match, 0 when none
MatchDecimal(s, i) ==
    LET j == IF s[i] = "-" THEN i + 1 ELSE i
        d == SkipWhile(s, j, Digit)
        e == SkipWhile(s, d + 1, Digit)
    IN  IF d > j /\ d <= Len(s) /\ s[d] = "." /\ e > d + 1 THEN e ELSE 0

\* (match) => parseFloat(match).toFixed(decimalPlaces), for the match at i
RoundMatch(s, i, decimalPlaces) ==
    LET j == IF s[i] = "-" THEN i + 1 ELSE i
        d == SkipWhile(s, j, Digit)
    IN  ToFixed(s[i] = "-", Slice(s, j, d), Slice(s, d + 1, MatchDecimal(s, i)),
                decimalPlaces)

\* ------------------------------------------------------------------------
\* removeRedundantCommands: its regular expression

\* \d+(?:\.\d+)? at position i: the positions after the match that backtracking
\* tries.  Both quantifiers are greedy, so it tries them from the largest to
\* the smallest: every digit of the fraction, then fewer, then no fraction,
\* then fewer digits of the whole part.
NumberEnds(s, i) ==
    LET d == SkipWhile(s, i, Digit)
    IN  {e \in (i + 1)..d : TRUE}
            \cup (IF d <= Len(s) /\ s[d] = "."
                  THEN {e \in (d + 2)..SkipWhile(s, d + 1, Digit) : TRUE}
                  ELSE {})

\* \s*\1\s*\2\s*\3 after the first command letter at i, $2 = s[p2 .. e2-1] and
\* $3 = s[p3 .. e3-1]: the position after the match, 0 when none.  Each \s* is
\* followed by a character that is not white space, so it takes all of it.
DuplicateTail(s, i, p2, e2, p3, e3) ==
    LET p4 == SkipWhile(s, e3, Space)
        p5 == SkipWhile(s, p4 + 1, Space)
        p6 == SkipWhile(s, p5 + (e2 - p2), Space)
    IN  IF /\ p4 <= Len(s)
           /\ Canonicalize(s[p4]) = Canonicalize(s[i])
           /\ StartsAt(s, p5, Slice(s, p2, e2))
           /\ StartsAt(s, p6, Slice(s, p3, e3))
        THEN p6 + (e3 - p3) ELSE 0

\* /([MLHVCSQTAZ])\s*(\d+(?:\.\d+)?)\s*(\d+(?:\.\d+)?)\s*\1\s*\2\s*\3/gi at
\* position i: <<position after the match, $2, $3>>, or <<0, <<>>, <<>>>> when
\* none.  The match is the first that backtracking finds: the longest $2 for
\* which the rest matches and, with it, the longest $3.
MatchDuplicateCommand(s, i) ==
    IF ~CommandLetter(s[i]) THEN <<0, <<>>, <<>>>>
    ELSE LET tries == UNION { { <<p2, e2, p3, e3>> :
                                  e3 \in NumberEnds(s, p3) } :
                              <<p2, e2, p3>> \in
                                  { <<p, e, SkipWhile(s, e, Space)>> :
                                      <<p, e>> \in
                                          UNION { {<<q, f>> : f \in NumberEnds(s, q)} :
                                                  q \in {SkipWhile(s, i + 1, Space)} } } }
             good == {m \in tries : DuplicateTail(s, i, m[1], m[2], m[3], m[4]) > 0}
         IN  IF good = {} THEN <<0, <<>>, <<>>>>
             ELSE Only({ << DuplicateTail(s, i, m[1], m[2], m[3], m[4]),
                            Slice(s, m[1], m[2]), Slice(s, m[3], m[4]) >> :
                         m \in {g \in good : \A h \in good :
                                   g[2] > h[2] \/ (g[2] = h[2] /\ g[4] >= h[4])} })

\* ------------------------------------------------------------------------
\* removeEmptyAttributes: its regular expressions

\* /\s+[a-zA-Z-]+=""/g (quote = '"') or /\s+[a-zA-Z-]+=''/g at position i: the
\* position after the match, 0 when none
MatchEmptyAttribute(s, i, quote) ==
    IF s[i] \notin Space THEN 0
    ELSE LET a == SkipWhile(s, i, Space)
             b == SkipWhile(s, a, Letter \cup {"-"})
         IN  IF b > a /\ StartsAt(s, b, <<"=", quote, quote>>) THEN b + 3 ELSE 0

\* /(>)(<)(\/*)/g of formatSvgString at position i: the position after the
\* match, 0 when none
MatchTagBoundary(s, i) ==
    IF StartsAt(s, i, <<">", "<">>) THEN SkipWhile(s, i + 2, {"/"}) ELSE 0

\* ------------------------------------------------------------------------
\* String.prototype.replace with a regular expression that has the g flag

\* the position after the match of regex at position i, 0 when it does not
\* match there; a regex is <<its name, its parameter>>
Match(regex, s, i) ==
    CASE regex[1] = "xmlDeclaration" -> MatchXmlDeclaration(s, i)
      [] regex[1] = "comment" -> MatchComment(s, i)
      [] regex[1] = "whitespace" -> MatchWhitespace(s, i)
      [] regex[1] = "interTagSpace" -> MatchInterTagSpace(s, i)
      [] regex[1] = "decimal" -> MatchDecimal(s, i)
      [] regex[1] = "duplicateCommand" -> MatchDuplicateCommand(s, i)[1]
      [] regex[1] = "emptyAttribute" -> MatchEmptyAttribute(s, i, regex[2])
      [] regex[1] = "tagBoundary" -> MatchTagBoundary(s, i)

\* what the match of regex at position i is replaced by
Replacement(regex, s, i) ==
    CASE regex[1] \in {"xmlDeclaration", "comment", "emptyAttribute"} -> <<>>
      [] regex[1] = "whitespace" -> <<" ">>
      [] regex[1] = "interTagSpace" -> <<">", "<">>
      [] regex[1] = "decimal" -> RoundMatch(s, i, regex[2])
      [] regex[1] = "duplicateCommand" ->
             Only({ <<s[i], " ">> \o m[2] \o <<" ">> \o m[3] :
                    m \in {MatchDuplicateCommand(s, i)} })
      [] regex[1] = "tagBoundary" ->
             <<">", "\n">> \o Slice(s, i + 1, MatchTagBoundary(s, i))

RECURSIVE ReplaceAll(_, _, _)
\* s.replace(regex, replacement) from position i on: the leftmost match is
\* replaced, and the scan goes on after it
ReplaceAll(s, i, regex) ==
    Only({ IF \A k \in i..Len(s) : ends[k] = 0 THEN Slice(s, i, Len(s) + 1)
           ELSE Only({ Slice(s, i, k) \o Replacement(regex, s, k)
                           \o ReplaceAll(s, ends[k], regex) :
                       k \in {h \in i..Len(s) :
                                 ends[h] > 0 /\ \A g \in i..(h - 1) : ends[g] = 0} }) :
           ends \in {[k \in i..Len(s) |-> Match(regex, s, k)]} })

\* ------------------------------------------------------------------------
\* svgOptimizer: the exported functions

removeRedundantCommands(svgString) == ReplaceAll(svgString, 1, <<"duplicateCommand">>)

roundCoordinates(svgString, decimalPlaces) ==
    ReplaceAll(svgString, 1, <<"decimal", decimalPlaces>>)

removeEmptyAttributes(svgString) ==
    Only({ ReplaceAll(cleaned, 1, <<"emptyAttribute", "'">>) :
           cleaned \in {ReplaceAll(svgString, 1, <<"emptyAttribute", "\"">>)} })

optimizeSvgPaths(svgString) ==
    Only({ Trim(cleaned) :
      cleaned \in { removeEmptyAttributes(collapsed) :
      collapsed \in { removeRedundantCommands(rounded) :
      rounded \in { roundCoordinates(noGaps, 1) :
      noGaps \in { ReplaceAll(oneSpace, 1, <<"interTagSpace">>) :
      oneSpace \in { ReplaceAll(noComments, 1, <<"whitespace">>) :
      noComments \in { ReplaceAll(noDeclarations, 1, <<"comment">>) :
      noDeclarations \in { ReplaceAll(svgString, 1, <<"xmlDeclaration">>) } } } } } } } })

\* ------------------------------------------------------------------------
\* fileValidator: formatSvgString

\* xml:space="preserve"
PreserveAttribute ==
    <<"x", "m", "l", ":", "s", "p", "a", "c", "e", "=", "\"",
      "p", "r", "e", "s", "e", "r", "v", "e", "\"">>

\* __PRESERVE_
PreservePrefix == <<"_", "_", "P", "R", "E", "S", "E", "R", "V", "E", "_">>

\* `__PRESERVE_${offset}__`
PreserveKey(offset) == PreservePrefix \o NatToDigits(offset) \o <<"_", "_">>

\* /(<[^>]*xml:space="preserve"[^>]*>)([\s\S]*?)(<\/[^>]*>)/g at position i:
\* <<the position of the ">" that ends openTag, the position where closeTag
\* starts, the position of the ">" that ends closeTag>>, or <<0, 0, 0>> when
\* none.  openTag runs to the first ">", content (lazy) to the first "</".
MatchPreserve(s, i) ==
    IF s[i] # "<" THEN <<0, 0, 0>>
    ELSE Only({ IF g = 0 \/ ~Contains(Slice(s, i + 1, g), PreserveAttribute)
                THEN <<0, 0, 0>>
                ELSE Only({ IF c = 0 \/ IndexOf(s, <<">">>, c + 2) = 0
                            THEN <<0, 0, 0>>
                            ELSE <<g, c, IndexOf(s, <<">">>, c + 2)>> :
                            c \in {IndexOf(s, <<"<", "/">>, g + 1)} }) :
                g \in {IndexOf(s, <<">">>, i + 1)} })

\* the callback of the replace, for the match m at position k, and what the
\* replace makes of the rest of the string: <<the text from i on with the
\* content replaced by its key, the entries of preservedContent in insertion
\* order, each <<key, content>>>>
Preserved(s, i, k, m, rest) ==
    << Slice(s, i, m[1] + 1) \o PreserveKey(k - 1) \o Slice(s, m[2], m[3] + 1)
           \o rest[1],
       << <<PreserveKey(k - 1), Slice(s, m[1] + 1, m[2])>> >> \o rest[2] >>

RECURSIVE PreserveContent(_, _)
\* formatted.replace(/(<[^>]*xml:space="preserve"...)/g, callback) from
\* position i on
PreserveContent(s, i) ==
    Only({ IF \A k \in i..Len(s) : ms[k][1] = 0
           THEN <<Slice(s, i, Len(s) + 1), <<>>>>
           ELSE Only({ Preserved(s, i, k, ms[k], PreserveContent(s, ms[k][3] + 1)) :
                       k \in {h \in i..Len(s) :
                                 ms[h][1] > 0 /\ \A g \in i..(h - 1) : ms[g][1] = 0} }) :
           ms \in {[k \in i..Len(s) |-> MatchPreserve(s, k)]} })

\* s.split('\n')
Split(s) ==
    LET breaks == {k \in 1..Len(s) : s[k] = "\n"}
        Break(n) == IF n = 0 THEN 0
                    ELSE IF n > Cardinality(breaks) THEN Len(s) + 1
                    ELSE CHOOSE k \in breaks : Cardinality({b \in breaks : b < k}) = n - 1
    IN  [n \in 1..(Cardinality(breaks) + 1) |-> Slice(s, Break(n - 1) + 1, Break(n))]

RECURSIVE Repeat(_, _)
\* s.repeat(n)
Repeat(s, n) == IF n = 0 THEN <<>> ELSE s \o Repeat(s, n - 1)

\* node.match(/^<\/\w/)
ClosingTag(node) ==
    Len(node) >= 3 /\ node[1] = "<" /\ node[2] = "/" /\ node[3] \in WordChar

\* node.match(/^<\w[^>]*>$/)
OpeningTag(node) ==
    /\ Len(node) >= 3
    /\ node[1] = "<"
    /\ node[2] \in WordChar
    /\ node[Len(node)] = ">"
    /\ \A k \in 3..(Len(node) - 1) : node[k] # ">"

\* node.match(/\/>$/)
SelfClosing(node) ==
    Len(node) >= 2 /\ node[Len(node) - 1] = "/" /\ node[Len(node)] = ">"

\* node.match(/.+<\/\w[^>]*>$/); a node holds no line terminator
ClosedOnLine(node) ==
    \E k \in 2..(Len(node) - 3) :
        /\ node[k] = "<"
        /\ node[k + 1] = "/"
        /\ node[k + 2] \in WordChar
        /\ node[Len(node)] = ">"
        /\ \A j \in (k + 3)..(Len(node) - 1) : node[j] # ">"

RECURSIVE IndentLines(_, _, _, _)
\* formatted.split('\n').map(...) from line n on, with the value pad has there
IndentLines(lines, n, pad, PADDING) ==
    IF n > Len(lines) THEN <<>>
    ELSE Only({ <<Repeat(PADDING, p) \o lines[n]>>
                    \o IndentLines(lines, n + 1,
                                   IF /\ OpeningTag(lines[n])
                                      /\ ~SelfClosing(lines[n])
                                      /\ ~ClosedOnLine(lines[n])
                                   THEN p + 1 ELSE p,
                                   PADDING) :
                p \in {IF ClosingTag(lines[n]) /\ pad > 0 THEN pad - 1 ELSE pad} })

\* <svg>\n</svg>
EmptySvgLines == <<"<", "s", "v", "g", ">", "\n", "<", "/", "s", "v", "g", ">">>

\* <svg></svg>
EmptySvg == <<"<", "s", "v", "g", ">", "<", "/", "s", "v", "g", ">">>

\* "Format the XML structure" and "Fix empty tags formatting"
FormatStructure(formatted, indentSize) ==
    Only({ IF joined = EmptySvgLines THEN EmptySvg ELSE joined :
           joined \in { Join(IndentLines(Split(broken), 1, 0, Repeat(<<" ">>, indentSize)),
                             <<"\n">>) :
                        broken \in {ReplaceAll(formatted, 1, <<"tagBoundary">>)} } })

RECURSIVE GetSubstitution(_, _, _, _)
\* the text a replacement string stands for when the pattern is a string: $$ is
\* "$", $& the matched text, $` the text before the match, $' the text after it
GetSubstitution(matched, before, after, replacement) ==
    IF replacement = <<>> THEN <<>>
    ELSE IF /\ replacement[1] = "$"
            /\ Len(replacement) >= 2
            /\ replacement[2] \in {"$", "&", "`", "'"}
    THEN (CASE replacement[2] = "$" -> <<"$">>
            [] replacement[2] = "&" -> matched
            [] replacement[2] = "`" -> before
            [] replacement[2] = "'" -> after)
         \o GetSubstitution(matched, before, after,
                            SubSeq(replacement, 3, Len(replacement)))
    ELSE <<replacement[1]>>
         \o GetSubstitution(matched, before, after, Tail(replacement))

\* formatted.replace(key, content): the first occurrence of the string key
ReplaceFirst(formatted, key, content) ==
    Only({ IF k = 0 THEN formatted
           ELSE Slice(formatted, 1, k)
                \o GetSubstitution(key, Slice(formatted, 1, k),
                                   Slice(formatted, k + Len(key), Len(formatted) + 1),
                                   content)
                \o Slice(formatted, k + Len(key), Len(formatted) + 1) :
           k \in {IndexOf(formatted, key, 1)} })

RECURSIVE Restore(_, _)
\* preservedContent.forEach((content, key) => ...)
Restore(formatted, preservedContent) ==
    IF preservedContent = <<>> THEN formatted
    ELSE Restore(ReplaceFirst(formatted, preservedContent[1][1], preservedContent[1][2]),
                 Tail(preservedContent))

formatSvgString(svgString, options) ==
    IF svgString = <<>> THEN <<>>
    ELSE Only({ IF options.preserveWhitespace
                THEN Restore(FormatStructure(p[1], options.indentSize), p[2])
                ELSE FormatStructure(p[1], options.indentSize) :
                p \in {IF options.preserveWhitespace
                       THEN PreserveContent(Trim(svgString), 1)
                       ELSE <<Trim(svgString), <<>>>>} })

\* A call formatSvgString(svgString, options) with any JavaScript values.  A
\* value is <<"undefined">>, <<"null">>, <<"boolean", b>>, <<"number", n>>,
\* <<"string", s>> or, for an options object, <<"object", i, p>> where i is
\* <<>> or <<indentSize>> and p is <<>> or <<preserveWhitespace>>.  The result
\* is <<"return", string>> or <<"throw", error>>.

\* !value
Falsy(value) ==
    \/ value[1] \in {"undefined", "null"}
    \/ value[1] = "boolean" /\ ~value[2]
    \/ value[1] = "number" /\ value[2] = 0
    \/ value[1] = "string" /\ value[2] = <<>>

\* const { indentSize = 2, preserveWhitespace = true } = options, for an
\* options that is not null; the parameter's default is {}
Destructure(options) ==
    [indentSize |-> IF options[1] = "object" /\ options[2] # <<>> THEN options[2][1] ELSE 2,
     preserveWhitespace |-> IF options[1] = "object" /\ options[3] # <<>> THEN options[3][1] ELSE TRUE]

CallFormatSvgString(svgString, options) ==
    IF options[1] = "null" THEN <<"throw", "TypeError">>
    ELSE IF Falsy(svgString) \/ svgString[1] # "string" THEN <<"return", <<>>>>
    ELSE <<"return", formatSvgString(svgString[2], Destructure(options))>>

\* ------------------------------------------------------------------------
\* svgOptimizer: calculateCompressionRatio.  A number is the fraction
\* <<numerator, denominator>> in lowest terms with a positive denominator.

RECURSIVE Gcd(_, _)
Gcd(a, b) == IF b = 0 THEN a ELSE Gcd(b, a % b)

\* n / d for d > 0
Fraction(n, d) ==
    LET g == Gcd(IF n < 0 THEN -n ELSE n, d)
    IN  <<(IF n < 0 THEN -((-n) \div g) ELSE n \div g), d \div g>>

\* (originalSize - compressedSize) / originalSize without the guard for a zero
\* originalSize, and measuring what is left instead of what is saved
CompressedShare(originalSize, compressedSize) ==
    IF originalSize = 0 THEN <<0, 1>> ELSE Fraction(compressedSize, originalSize)

calculateCompressionRatio(originalSize, compressedSize) ==
    IF originalSize = 0 THEN <<0, 1>>
    ELSE Fraction(originalSize - compressedSize, originalSize)

\* ------------------------------------------------------------------------
\* fileValidator: validatePngFile.  A file is [name, type, size]; its name is
\* a sequence of characters, its type and the messages are strings.

MAX_FILE_SIZE == 5 * 1024 * 1024

MAX_FILENAME_LENGTH == 100

\* c.toLowerCase()
ToLowerCase(c) ==
    IF \E k \in 1..26 : UpperCase[k] = c
    THEN LowerCase[CHOOSE k \in 1..26 : UpperCase[k] = c]
    ELSE c

\* s.toLowerCase().endsWith(p)
LowerEndsWith(s, p) ==
    /\ Len(p) <= Len(s)
    /\ \A k \in 1..Len(p) : ToLowerCase(s[Len(s) - Len(p) + k]) = p[k]

\* validatePngFile with the size check excluding the limit itself
ValidateBelowLimit(file) ==
    LET errors ==
            (IF file.type # "image/png" THEN <<"Please select a PNG file">> ELSE <<>>)
         \o (IF file.size >= MAX_FILE_SIZE THEN <<"File size must be less than 5MB">> ELSE <<>>)
         \o (IF ~LowerEndsWith(file.name, <<".", "p", "n", "g">>)
             THEN <<"Invalid file extension">> ELSE <<>>)
         \o (IF Len(file.name) > MAX_FILENAME_LENGTH THEN <<"Filename too long">> ELSE <<>>)
    IN  [isValid |-> Len(errors) = 0, errors |-> errors]

validatePngFile(file) ==
    LET errors ==
            (IF file.type # "image/png" THEN <<"Please select a PNG file">> ELSE <<>>)
         \o (IF file.size > MAX_FILE_SIZE THEN <<"File size must be less than 5MB">> ELSE <<>>)
         \o (IF ~LowerEndsWith(file.name, <<".", "p", "n", "g">>)
             THEN <<"Invalid file extension">> ELSE <<>>)
         \o (IF Len(file.name) > MAX_FILENAME_LENGTH THEN <<"Filename too long">> ELSE <<>>)
    IN  [isValid |-> Len(errors) = 0, errors |-> errors]

\* ------------------------------------------------------------------------
\* useImageConverter.  null is <<>> and a value v that may be null is <<v>>.

Null == <<>>

\* useState({...})
initialState ==
    [file |-> Null, result |-> Null, isProcessing |-> FALSE, error |-> Null, progress |-> 0]

\* convertFile: the state updates, each a function of the previous state

Started(prev) == [prev EXCEPT !.isProcessing = TRUE, !.error = Null, !.progress = 0]

\* the update for a file that failed validation, reporting the last error
\* and leaving isProcessing as it is
RejectedLast(prev, validation) ==
    [prev EXCEPT !.error = <<validation.errors[Len(validation.errors)]>>, !.progress = 0]

Rejected(prev, validation) ==
    [prev EXCEPT !.error = <<validation.errors[1]>>, !.isProcessing = FALSE, !.progress = 0]

Validated(prev) == [prev EXCEPT !.progress = 25]

\* the update after the await, storing the result without the file
ConvertedResultOnly(prev, file, result) ==
    [prev EXCEPT !.result = <<result>>, !.isProcessing = FALSE, !.progress = 100]

Converted(prev, file, result) ==
    [prev EXCEPT !.file = <<file>>, !.result = <<result>>,
                 !.isProcessing = FALSE, !.progress = 100]

\* the update of the catch block, keeping the file and the result
FailedKeeping(prev, message) ==
    [prev EXCEPT !.error = <<message>>, !.isProcessing = FALSE, !.progress = 0]

Failed(prev, message) ==
    [prev EXCEPT !.error = <<message>>, !.isProcessing = FALSE, !.progress = 0,
                 !.file = Null, !.result = Null]

\* ------------------------------------------------------------------------
\* downloadHelper: downloadSvgFile.  failing names the browser call that
\* throws, "none" when none does.  The result is what the caller sees,
\* <<"return">> or <<"throw", the call that threw>>, the link that was clicked
\* and the object URLs the function leaves.

DownloadSteps ==
    <<"createDownloadBlob", "createObjectURL", "createElement", "appendChild",
      "click", "removeChild", "revokeObjectURL">>

\* the position of step in DownloadSteps
StepOf(step) == CHOOSE k \in 1..Len(DownloadSteps) : DownloadSteps[k] = step

downloadSvgFile(svgString, filename, failing) ==
    IF failing = "none"
    THEN [outcome |-> <<"return">>,
          clicked |-> <<[href |-> svgString, download |-> filename]>>,
          urls |-> <<"revoked">>]
    ELSE [outcome |-> <<"throw", failing>>,
          clicked |-> IF StepOf(failing) > StepOf("click")
                      THEN <<[href |-> svgString, download |-> filename]>> ELSE <<>>,
          urls |-> IF StepOf(failing) > StepOf("createObjectURL") THEN <<"live">> ELSE <<>>]

\* ------------------------------------------------------------------------
\* downloadHelper: generateFilename.  originalName is a JavaScript value, as
\* for CallFormatSvgString; the result is a string.

\* s.replace(/[<>:"|?*]/g, '')
RemoveInvalid(s) == SelectSeq(s, LAMBDA c : c \notin {"<", ">", ":", "\"", "|", "?", "*"})

\* where /\.[^/.]+$/ matches in s: the position of its dot, 0 when it does
\* not match
ExtensionAt(s) ==
    IF \E p \in 1..(Len(s) - 1) :
           s[p] = "." /\ \A k \in (p + 1)..Len(s) : s[k] \notin {"/", "."}
    THEN CHOOSE p \in 1..(Len(s) - 1) :
             s[p] = "." /\ \A k \in (p + 1)..Len(s) : s[k] \notin {"/", "."}
    ELSE 0

\* s.replace(/\.[^/.]+$/, '')
RemoveExtension(s) == IF ExtensionAt(s) = 0 THEN s ELSE SubSeq(s, 1, ExtensionAt(s) - 1)

\* if (sanitized.length > 100) sanitized = sanitized.substring(0, 90)
Truncate(sanitized) == IF Len(sanitized) > 100 THEN SubSeq(sanitized, 1, 90) ELSE sanitized

generateFilename(originalName) ==
    IF Falsy(originalName)
    THEN <<"c", "o", "n", "v", "e", "r", "t", "e", "d", ".", "s", "v", "g">>
    ELSE RemoveExtension(Truncate(RemoveInvalid(originalName[2]))) \o <<".", "s", "v", "g">>

\* ------------------------------------------------------------------------
\* imageConverter: countSvgPoints

\* where the match of /d="([^"]*)"/ that starts at position p ends: the
\* position of its closing quote, 0 when the pattern does not match at p
MatchPathData(s, p) ==
    IF StartsAt(s, p, <<"d", "=", "\"">>) /\ IndexOf(s, <<"\"">>, p + 3) # 0
    THEN IndexOf(s, <<"\"">>, p + 3)
    ELSE 0

\* path.match(/[MLHVCSQTAZ]/gi).length, path being s[p..q]
CountCommands(s, p, q) == Cardinality({k \in p..q : CommandLetter(s[k])})

\* the commands in the matches of /d="([^"]*)"/g from position i on
RECURSIVE CountFrom(_, _)
CountFrom(s, i) ==
    IF \A p \in i..Len(s) : MatchPathData(s, p) = 0 THEN 0
    ELSE LET p == CHOOSE p \in i..Len(s) :
                      /\ MatchPathData(s, p) # 0
                      /\ \A k \in i..(p - 1) : MatchPathData(s, k) = 0
         IN  CountCommands(s, p, MatchPathData(s, p)) + CountFrom(s, MatchPathData(s, p) + 1)

countSvgPoints(svgString) == IF svgString = <<>> THEN 0 ELSE CountFrom(svgString, 1)

\* ------------------------------------------------------------------------
\* Well-formed XML, for stating the properties: a document is a sequence of
\* comments, processing instructions, CDATA sections, tags and text in which
\* every markup construct is terminated, the tags nest, and text occurs only
\* inside an element.

NameStart == Letter \cup {"_", ":"}

NameChar == Letter \cup Digit \cup {"_", ":", "-", "."}

RECURSIVE AttributesEnd(_, _, _)
\* the attributes of a start tag from position j on, after the attributes
\* attrs: <<position after the tag's ">", whether the tag is self-closing, the
\* tag's attributes as <<name, value>> pairs>>, or <<0, FALSE, <<>>>> when the
\* tag is not well formed
AttributesEnd(s, j, attrs) ==
    LET a == SkipWhile(s, j, Space)
    IN  IF a > Len(s) THEN <<0, FALSE, <<>>>>
        ELSE IF s[a] = ">" THEN <<a + 1, FALSE, attrs>>
        ELSE IF StartsAt(s, a, <<"/", ">">>) THEN <<a + 2, TRUE, attrs>>
        ELSE LET b == SkipWhile(s, a, NameChar)
                 eq == SkipWhile(s, b, Space)
                 q == SkipWhile(s, eq + 1, Space)
             IN  IF /\ a > j
                    /\ s[a] \in NameStart
                    /\ eq <= Len(s) /\ s[eq] = "="
                    /\ q <= Len(s) /\ s[q] \in {"\"", "'"}
                    /\ IndexOf(s, <<s[q]>>, q + 1) > 0
                    /\ \A k \in (q + 1)..IndexOf(s, <<s[q]>>, q + 1) : s[k] # "<"
                 THEN LET c == IndexOf(s, <<s[q]>>, q + 1)
                      IN  AttributesEnd(s, c + 1,
                                        Append(attrs, <<Slice(s, a, b), Slice(s, q + 1, c)>>))
                 ELSE <<0, FALSE, <<>>>>

RECURSIVE ParseXml(_, _, _, _)
\* parses s from position i on, with the names of the open elements in stack and
\* the tags read so far in tags: [ok |-> whether s is well formed, tags |-> the
\* start, end and empty-element tags of s in order, each <<kind, name,
\* attributes>>]
ParseXml(s, i, stack, tags) ==
    LET bad == [ok |-> FALSE, tags |-> tags]
    IN  IF i > Len(s) THEN [ok |-> stack = <<>> /\ tags # <<>>, tags |-> tags]
        ELSE IF StartsAt(s, i, <<"<", "!", "-", "-">>)
        THEN LET g == IndexOf(s, <<"-", "-">>, i + 4)
             IN  IF g > 0 /\ StartsAt(s, g, <<"-", "-", ">">>)
                 THEN ParseXml(s, g + 3, stack, tags) ELSE bad
        ELSE IF StartsAt(s, i, <<"<", "!", "[", "C", "D", "A", "T", "A", "[">>)
        THEN LET g == IndexOf(s, <<"]", "]", ">">>, i + 9)
             IN  IF g > 0 /\ stack # <<>> THEN ParseXml(s, g + 3, stack, tags) ELSE bad
        ELSE IF StartsAt(s, i, <<"<", "?">>)
        THEN LET g == IndexOf(s, <<"?", ">">>, i + 2)
             IN  IF g > 0 /\ i + 2 <= Len(s) /\ s[i + 2] \in NameStart
                 THEN ParseXml(s, g + 2, stack, tags) ELSE bad
        ELSE IF StartsAt(s, i, <<"<", "/">>)
        THEN LET e == SkipWhile(s, i + 2, NameChar)
                 g == SkipWhile(s, e, Space)
                 name == Slice(s, i + 2, e)
             IN  IF /\ g <= Len(s) /\ s[g] = ">"
                    /\ stack # <<>> /\ stack[Len(stack)] = name
                 THEN ParseXml(s, g + 1, SubSeq(stack, 1, Len(stack) - 1),
                               Append(tags, <<"end", name, <<>>>>))
                 ELSE bad
        ELSE IF s[i] = "<"
        THEN LET e == SkipWhile(s, i + 1, NameChar)
                 name == Slice(s, i + 1, e)
                 end == AttributesEnd(s, e, <<>>)
             IN  IF e > i + 1 /\ s[i + 1] \in NameStart /\ end[1] > 0
                 THEN IF end[2]
                      THEN ParseXml(s, end[1], stack,
                                    Append(tags, <<"empty", name, end[3]>>))
                      ELSE ParseXml(s, end[1], Append(stack, name),
                                    Append(tags, <<"start", name, end[3]>>))
                 ELSE bad
        ELSE LET g == IndexOf(s, <<"<">>, i)
                 e == IF g = 0 THEN Len(s) + 1 ELSE g
             IN  IF stack = <<>> /\ \E k \in i..(e - 1) : s[k] \notin Space
                 THEN bad ELSE ParseXml(s, e, stack, tags)

WellFormed(s) == ParseXml(s, 1, <<>>, <<>>).ok

\* the element nesting of a well-formed s: the kinds and names of its tags in order
Nesting(s) ==
    LET tags == ParseXml(s, 1, <<>>, <<>>).tags
    IN  [k \in 1..Len(tags) |-> <<tags[k][1], tags[k][2]>>]

RECURSIVE Flatten(_)
\* the concatenation of a sequence of sequences
Flatten(ss) == IF ss = <<>> THEN <<>> ELSE ss[1] \o Flatten(Tail(ss))

\* the attributes of a well-formed s that have a non-empty value, in order, each
\* <<element name, attribute name, value>>
ValuedAttributes(s) ==
    LET tags == ParseXml(s, 1, <<>>, <<>>).tags
        Valued(tag) == SelectSeq([k \in 1..Len(tag[3]) |-> <<tag[2]>> \o tag[3][k]],
                                 LAMBDA a : a[3] # <<>>)
    IN  Flatten([k \in 1..Len(tags) |-> Valued(tags[k])])

\* ------------------------------------------------------------------------
\* Reading documents, for stating the properties

\* the position after the SVG number that starts at i (an optional sign, then
\* digits with an optional fraction, or a fraction alone); i when none starts there
NumberEnd(s, i) ==
    LET a == IF s[i] \in {"-", "+"} THEN i + 1 ELSE i
        b == SkipWhile(s, a, Digit)
        c == IF b <= Len(s) /\ s[b] = "." THEN SkipWhile(s, b + 1, Digit) ELSE b
    IN  IF b > a \/ c > b + 1 THEN c ELSE i

RECURSIVE PathTokens(_, _)
\* the command letters and the numbers of path data, in order, from position i on
PathTokens(s, i) ==
    IF i > Len(s) THEN <<>>
    ELSE IF s[i] \in Letter THEN <<<<s[i]>>>> \o PathTokens(s, i + 1)
    ELSE IF NumberEnd(s, i) > i
    THEN <<Slice(s, i, NumberEnd(s, i))>> \o PathTokens(s, NumberEnd(s, i))
    ELSE PathTokens(s, i + 1)

\* the value of the first d attribute of s; empty when there is none
PathData(s) ==
    LET k == IndexOf(s, <<" ", "d", "=", "\"">>, 1)
    IN  IF k = 0 THEN <<>> ELSE Slice(s, k + 4, IndexOf(s, <<"\"">>, k + 4))

\* the commands of the path of s in order, each <<letter, operand, ...>>
PathCommandsOf(s) ==
    LET tokens == PathTokens(PathData(s), 1)
        letters == {k \in 1..Len(tokens) : tokens[k][1] \in Letter}
        Start(n) == CHOOSE k \in letters : Cardinality({l \in letters : l < k}) = n - 1
        End(n) == IF n = Cardinality(letters) THEN Len(tokens) ELSE Start(n + 1) - 1
    IN  [n \in 1..Cardinality(letters) |-> SubSeq(tokens, Start(n), End(n))]

\* whether command k of cs repeats the command before it: the same letter,
\* ignoring case, and the same two operands
RepeatsPrevious(cs, k) ==
    /\ k > 1
    /\ Len(cs[k]) = 3
    /\ Canonicalize(cs[k][1][1]) = Canonicalize(cs[k - 1][1][1])
    /\ Tail(cs[k]) = Tail(cs[k - 1])

\* cs without the commands whose index is in D
WithoutCommands(cs, D) ==
    LET kept == (1..Len(cs)) \ D
        Nth(n) == CHOOSE k \in kept : Cardinality({j \in kept : j < k}) = n - 1
    IN  [n \in 1..Cardinality(kept) |-> cs[Nth(n)]]

\* whether the commands after are the commands before less some commands that
\* repeat the command before them
OnlyRepeatsRemoved(before, after) ==
    \E D \in SUBSET {k \in 1..Len(before) : RepeatsPrevious(before, k)} :
        WithoutCommands(before, D) = after

\* the number of digits that follow position k of s
DigitsAfter(s, k) == SkipWhile(s, k + 1, Digit) - (k + 1)

\* whether s holds a comment: <!-- and, after it, -->
HoldsComment(s) ==
    \E i \in 1..Len(s) :
        StartsAt(s, i, <<"<", "!", "-", "-">>) /\ IndexOf(s, <<"-", "-", ">">>, i + 4) > 0

\* whether s holds name="" or name='' for a name that ends in a letter or a hyphen
HoldsEmptyAttribute(s) ==
    \E i \in 1..Len(s) :
        /\ s[i] \in Letter \cup {"-"}
        /\ StartsAt(s, i + 1, <<"=", "\"", "\"">>) \/ StartsAt(s, i + 1, <<"=", "'", "'">>)

RECURSIVE ElementEnd(_, _, _)
\* the position of the "<" of the end tag that closes the element whose content
\* starts at i, depth elements being open inside it; 0 when there is none
ElementEnd(s, i, depth) ==
    IF i > Len(s) THEN 0
    ELSE IF StartsAt(s, i, <<"<", "/">>)
    THEN IF depth = 0 THEN i ELSE ElementEnd(s, i + 2, depth - 1)
    ELSE IF s[i] = "<" /\ i < Len(s) /\ s[i + 1] \in NameStart
    THEN LET g == IndexOf(s, <<">">>, i)
         IN  IF g = 0 THEN 0
             ELSE ElementEnd(s, g + 1, IF s[g - 1] = "/" THEN depth ELSE depth + 1)
    ELSE ElementEnd(s, i + 1, depth)

\* the inner contents of the elements of s that carry xml:space="preserve", in order
PreservedContents(s) ==
    LET starts == {i \in 1..(Len(s) - 1) :
                      /\ s[i] = "<"
                      /\ s[i + 1] \in NameStart
                      /\ IndexOf(s, <<">">>, i) > 0
                      /\ Contains(Slice(s, i, IndexOf(s, <<">">>, i)), PreserveAttribute)}
        Nth(n) == CHOOSE i \in starts : Cardinality({j \in starts : j < i}) = n - 1
        Inner(i) == LET g == IndexOf(s, <<">">>, i)
                    IN  Slice(s, g + 1, ElementEnd(s, g + 1, 0))
    IN  [n \in 1..Cardinality(starts) |-> Inner(Nth(n))]

\* the number of start tags of line that are not self-closing, less the number
\* of its end tags
TagBalance(line) ==
    Cardinality({i \in 1..(Len(line) - 1) :
                    /\ line[i] = "<"
                    /\ line[i + 1] \in NameStart
                    /\ IndexOf(line, <<">">>, i) > 0
                    /\ line[IndexOf(line, <<">">>, i) - 1] # "/"})
        - Cardinality({i \in 1..(Len(line) - 1) : StartsAt(line, i, <<"<", "/">>)})

RECURSIVE OpenBefore(_, _)
\* the number of elements that lines 1 .. n-1 leave open
OpenBefore(lines, n) ==
    IF n <= 1 THEN 0 ELSE OpenBefore(lines, n - 1) + TagBalance(lines[n - 1])

\* whether line n of lines is indented by indentSize spaces for each element
\* that is open there; an end tag is at the depth of its start tag
IndentedByDepth(lines, n, indentSize) ==
    LET first == SkipWhile(lines[n], 1, {" "})
        depth == OpenBefore(lines, n)
                     - (IF StartsAt(lines[n], first, <<"<", "/">>) THEN 1 ELSE 0)
    IN  first - 1 = indentSize * depth

\* the digits of [-]whole.frac rounded to decimalPlaces fractional digits, half
\* away from zero, computed on the decimal digits
RoundHalfAway(whole, frac, decimalPlaces) ==
    LET k == Len(frac)
        P == DigitsToNat(whole \o frac)
        n == IF decimalPlaces >= k THEN P * Pow10(decimalPlaces - k)
             ELSE (P + 5 * Pow10(k - decimalPlaces - 1)) \div Pow10(k - decimalPlaces)
        m == PadZeros(NatToDigits(n), decimalPlaces + 1)
        a == Len(m) - decimalPlaces
    IN  SubSeq(m, 1, a)
            \o (IF decimalPlaces = 0 THEN <<>> ELSE <<".">> \o SubSeq(m, a + 1, Len(m)))

\* s without its sign
Unsigned(s) == IF s # <<>> /\ s[1] = "-" THEN Tail(s) ELSE s

\* ------------------------------------------------------------------------
\* The inputs

\* the most functions a caller applies in a row
MaxCalls == 2

\* the most commands in a path
MaxCommands == 3

\* the most markup parts in a document
MaxParts == 3

\* the most fractional digits of a bare literal
MaxFraction == 2

\* the largest decimalPlaces passed to roundCoordinates
MaxPlaces == 2

\* the largest indentSize passed to formatSvgString
MaxIndent == 2

\* the most pieces in the content of a preserved element
MaxContent == 2

\* the most child elements of the svg element of a document to format
MaxNodes == 2

\* the sequences over S of length 1 .. n
SeqsUpTo(S, n) == UNION {[1..k -> S] : k \in 1..n}

PathCommands ==
    { <<"M", "1", " ", "1">>,                    \* M1 1
      <<"L", "2", " ", "3">>,                    \* L2 3
      <<"L", "2", " ", "3", "4">>,               \* L2 34
      <<"L", "2", ".", "4", "5", " ", "3">>,     \* L2.45 3
      <<"l", "-", "0", ".", "0", "4", " ", "7">>,  \* l-0.04 7
      <<"L", ".", "2", "5", " ", ".", "7", "5">> }  \* L.25 .75

\* <svg><path d="..."/></svg> with the commands separated by one space
PathDocument(commands) ==
    <<"<", "s", "v", "g", ">", "<", "p", "a", "t", "h", " ", "d", "=", "\"">>
        \o Join(commands, <<" ">>)
        \o <<"\"", "/", ">", "<", "/", "s", "v", "g", ">">>

PathDocuments == {PathDocument(cs) : cs \in SeqsUpTo(PathCommands, MaxCommands)}

MarkupParts ==
    { \* <?xml version="1.0"?>
      <<"<", "?", "x", "m", "l", " ", "v", "e", "r", "s", "i", "o", "n", "=", "\"",
        "1", ".", "0", "\"", "?", ">">>,
      \* <!-- c -->
      <<"<", "!", "-", "-", " ", "c", " ", "-", "-", ">">>,
      \* <!-- <?xml -->
      <<"<", "!", "-", "-", " ", "<", "?", "x", "m", "l", " ", "-", "-", ">">>,
      \* <svg a="" b='' c="1">
      <<"<", "s", "v", "g", " ", "a", "=", "\"", "\"", " ", "b", "=", "'", "'", " ",
        "c", "=", "\"", "1", "\"", ">">>,
      \* </svg>
      <<"<", "/", "s", "v", "g", ">">>,
      \* <use xlink:href=""/>
      <<"<", "u", "s", "e", " ", "x", "l", "i", "n", "k", ":", "h", "r", "e", "f",
        "=", "\"", "\"", "/", ">">>,
      \* <g t=' b=""'/>
      <<"<", "g", " ", "t", "=", "'", " ", "b", "=", "\"", "\"", "'", "/", ">">>,
      \* <![CDATA[<!<!---->--x-->]]>
      <<"<", "!", "[", "C", "D", "A", "T", "A", "[", "<", "!", "<", "!", "-", "-",
        "-", "-", ">", "-", "-", "x", "-", "-", ">", "]", "]", ">">>,
      \* a line break and two spaces
      <<"\n", " ", " ">>,
      \* the text  t=""  with a space on either side
      <<" ", "t", "=", "\"", "\"", " ">> }

MarkupDocuments == {Flatten(ps) : ps \in SeqsUpTo(MarkupParts, MaxParts)}

\* the bare literals [-]w.f with up to MaxFraction fractional digits
Literals ==
    { sign \o whole \o <<".">> \o frac :
        sign \in {<<>>, <<"-">>},
        whole \in {<<"0">>, <<"1">>, <<"1", "9">>},
        frac \in SeqsUpTo({"0", "4", "5", "9"}, MaxFraction) }

Documents == PathDocuments \cup MarkupDocuments \cup Literals

ContentParts ==
    { <<"a", " ", " ", "b">>,                          \* a  b
      <<"$", "$">>,                                    \* $$
      <<"$", "&">>,                                    \* $&
      <<"<", "b", ">", "x", "<", "/", "b", ">">> }     \* <b>x</b>

\* <text xml:space="preserve">content</text>
PreservedElement(content) ==
    <<"<", "t", "e", "x", "t", " ">> \o PreserveAttribute \o <<">">>
        \o content \o <<"<", "/", "t", "e", "x", "t", ">">>

FormatNodes ==
    { <<"<", "r", "e", "c", "t", "/", ">">>,                       \* <rect/>
      \* <g><rect/></g>
      <<"<", "g", ">", "<", "r", "e", "c", "t", "/", ">", "<", "/", "g", ">">>,
      \* <g>t<rect/></g>
      <<"<", "g", ">", "t", "<", "r", "e", "c", "t", "/", ">", "<", "/", "g", ">">>,
      PreservedElement(<<>>) }
        \cup {PreservedElement(Flatten(c)) : c \in SeqsUpTo(ContentParts, MaxContent)}

\* <svg>nodes</svg>, <svg></svg>, and the empty string
FormatDocuments ==
    { <<"<", "s", "v", "g", ">">> \o Flatten(nodes) \o <<"<", "/", "s", "v", "g", ">">> :
        nodes \in SeqsUpTo(FormatNodes, MaxNodes) }
        \cup {EmptySvg, <<>>}

\* ------------------------------------------------------------------------
\* The caller of svgOptimizer: it starts from a document and applies the
\* exported functions to the string it holds

DefaultOptions == [decimalPlaces |-> 1, indentSize |-> 2, preserveWhitespace |-> TRUE]

Init ==
    /\ src \in Documents
    /\ svg = src
    /\ arg = <<>>
    /\ opts = DefaultOptions
    /\ hist = <<>>
    /\ state = initialState
    /\ calls = <<>>
    /\ urls = <<>>
    /\ timers = {}
    /\ now = 0

\* name(arg) returned result
Returned(name, result, options) ==
    /\ Len(hist) < MaxCalls
    /\ arg' = svg
    /\ svg' = result
    /\ opts' = options
    /\ hist' = Append(hist, name)
    /\ UNCHANGED <<src, state, calls, browser>>

OptimizeSvgPaths == Returned("optimizeSvgPaths", optimizeSvgPaths(svg), DefaultOptions)

RemoveRedundantCommands ==
    Returned("removeRedundantCommands", removeRedundantCommands(svg), DefaultOptions)

RoundCoordinates ==
    \E n \in 0..MaxPlaces :
        Returned("roundCoordinates", roundCoordinates(svg, n),
                 [DefaultOptions EXCEPT !.decimalPlaces = n])

RemoveEmptyAttributes ==
    Returned("removeEmptyAttributes", removeEmptyAttributes(svg), DefaultOptions)

Next ==
    \/ OptimizeSvgPaths
    \/ RemoveRedundantCommands
    \/ RoundCoordinates
    \/ RemoveEmptyAttributes

Spec == Init /\ [][Next]_vars

\* ------------------------------------------------------------------------
\* The caller of formatSvgString: it starts from a document and formats the
\* string it holds

InitFormat ==
    /\ src \in FormatDocuments
    /\ svg = src
    /\ arg = <<>>
    /\ opts = DefaultOptions
    /\ hist = <<>>
    /\ state = initialState
    /\ calls = <<>>
    /\ urls = <<>>
    /\ timers = {}
    /\ now = 0

FormatSvgString ==
    \E indentSize \in 0..MaxIndent, preserveWhitespace \in BOOLEAN :
        Returned("formatSvgString",
                 formatSvgString(svg, [indentSize |-> indentSize,
                                       preserveWhitespace |-> preserveWhitespace]),
                 [DefaultOptions EXCEPT !.indentSize = indentSize,
                                        !.preserveWhitespace = preserveWhitespace])

NextFormat == FormatSvgString

SpecFormat == InitFormat /\ [][NextFormat]_vars

\* ------------------------------------------------------------------------
\* The properties

\* the function the last call applied; "" before the first call
LastCall == IF hist = <<>> THEN "" ELSE hist[Len(hist)]

\* C1: for every well-formed s, optimizeSvgPaths(optimizeSvgPaths(s)) =
\* optimizeSvgPaths(s): once src is well formed and optimizeSvgPaths has been
\* applied twice, the second call returned its argument.
C1_OptimizeIdempotent ==
    (hist = <<"optimizeSvgPaths", "optimizeSvgPaths">> /\ WellFormed(src))
        => svg = arg

\* C2: removeRedundantCommands removes a path command only if it repeats the
\* command before it (the same letter ignoring case, the same two operands as
\* whole literals), and keeps every other command as it is and in order: the
\* commands of the result are the commands of the argument less some commands
\* that repeat their predecessor.
C2_OnlyRepeatedCommandsRemoved ==
    LastCall = "removeRedundantCommands"
        => OnlyRepeatsRemoved(PathCommandsOf(arg), PathCommandsOf(svg))

\* C3: for every well-formed input, the output of optimizeSvgPaths is well
\* formed and has the element nesting of the input (comments and declarations
\* are no elements).
C3_OptimizeKeepsWellFormed ==
    (LastCall = "optimizeSvgPaths" /\ WellFormed(arg))
        => (WellFormed(svg) /\ Nesting(svg) = Nesting(arg))

\* C4: formatting is stable on its own output: for every well-formed s with a
\* nested element, formatSvgString(formatSvgString(s)) = formatSvgString(s),
\* both calls with the same options.
C4_FormatStable ==
    ( /\ hist = <<"formatSvgString", "formatSvgString">>
      /\ WellFormed(src)
      /\ Len(Nesting(src)) >= 3
      /\ formatSvgString(src, opts) = arg )
        => svg = arg

\* C5: with preserveWhitespace true, the inner content of every element that
\* carries xml:space="preserve" is in the output of formatSvgString character
\* for character as in the input, and no placeholder token is left in the output.
C5_PreservedContentRestored ==
    (LastCall = "formatSvgString" /\ opts.preserveWhitespace /\ WellFormed(arg))
        => ( /\ PreservedContents(svg) = PreservedContents(arg)
             /\ ~Contains(svg, PreservePrefix) )

\* C6: for every well-formed input (here: on one line) and indentSize >= 1,
\* each output line of formatSvgString starts with indentSize spaces for each
\* element open at that line, and an end tag's line is indented as the line of
\* its start tag.
C6_IndentedByDepth ==
    ( /\ LastCall = "formatSvgString"
      /\ opts.indentSize >= 1
      /\ WellFormed(arg)
      /\ ~Contains(arg, <<"\n">>) )
        => \A n \in 1..Len(Split(svg)) : IndentedByDepth(Split(svg), n, opts.indentSize)

\* C7: for every input that holds an XML declaration or a comment, the output
\* of optimizeSvgPaths holds no <?xml and no <!-- ... -->.
C7_NoDeclarationNoComment ==
    ( /\ LastCall = "optimizeSvgPaths"
      /\ Contains(arg, <<"<", "?", "x", "m", "l">>) \/ HoldsComment(arg) )
        => (~Contains(svg, <<"<", "?", "x", "m", "l">>) /\ ~HoldsComment(svg))

\* C8: the output of optimizeSvgPaths and of removeEmptyAttributes holds no
\* attribute name of letters and hyphens followed by ="" or by ='', and
\* removeEmptyAttributes leaves every attribute with a non-empty value of a
\* well-formed input as it is.
C8_NoEmptyAttribute ==
    /\ LastCall \in {"optimizeSvgPaths", "removeEmptyAttributes"}
           => ~HoldsEmptyAttribute(svg)
    /\ (LastCall = "removeEmptyAttributes" /\ WellFormed(arg))
           => ValuedAttributes(svg) = ValuedAttributes(arg)

\* C9: roundCoordinates(s, N) leaves every decimal point between digits with
\* exactly N digits after it (none is left for N = 0) and leaves a string
\* without a decimal point as it is; and every decimal point of
\* optimizeSvgPaths(s) has at most 1 digit after it.
C9_FractionDigits ==
    /\ LastCall = "roundCoordinates"
           => /\ \A k \in 2..(Len(svg) - 1) :
                     (svg[k] = "." /\ svg[k - 1] \in Digit /\ svg[k + 1] \in Digit)
                         => (opts.decimalPlaces > 0 /\ DigitsAfter(svg, k) = opts.decimalPlaces)
              /\ ~Contains(arg, <<".">>) => svg = arg
    /\ LastCall = "optimizeSvgPaths"
           => \A k \in 1..Len(svg) : svg[k] = "." => DigitsAfter(svg, k) <= 1

\* C10: roundCoordinates rounds a decimal literal to the nearest value with N
\* fractional digits, and an exact decimal tie away from zero, for positive and
\* for negative literals: for a bare literal the digits of the result are the
\* digits of the literal rounded half away from zero.
C10_RoundsHalfAwayFromZero ==
    (hist = <<"roundCoordinates">> /\ arg \in Literals)
        => Unsigned(svg)
               = RoundHalfAway(Slice(Unsigned(arg), 1, IndexOf(Unsigned(arg), <<".">>, 1)),
                               Slice(arg, IndexOf(arg, <<".">>, 1) + 1, Len(arg) + 1),
                               opts.decimalPlaces)

\* whether s holds white space the optimizer targets: two white-space characters
\* in a row, white space between a ">" and the next "<", or white space at
\* either end
ExtraWhitespace(s) ==
    \/ \E k \in 1..(Len(s) - 1) : s[k] \in Space /\ s[k + 1] \in Space
    \/ \E k \in 1..(Len(s) - 1) :
           /\ s[k] = ">"
           /\ s[k + 1] \in Space
           /\ StartsAt(s, SkipWhile(s, k + 1, Space), <<"<">>)
    \/ s # <<>> /\ (s[1] \in Space \/ s[Len(s)] \in Space)

\* whether s holds a number with more than one digit after its decimal point
LongFraction(s) == \E k \in 1..Len(s) : s[k] = "." /\ DigitsAfter(s, k) >= 2

\* whether the path of s holds a command that repeats the command before it
DuplicateCommand(s) ==
    \E k \in 1..Len(PathCommandsOf(s)) : RepeatsPrevious(PathCommandsOf(s), k)

\* C11: for every s that holds a targeted redundancy (extra white space, a
\* number with more than one decimal place, a duplicated consecutive path
\* command, an empty attribute), optimizeSvgPaths(s) is shorter than s.
C11_OptimizeShrinks ==
    ( /\ LastCall = "optimizeSvgPaths"
      /\ \/ ExtraWhitespace(arg)
         \/ LongFraction(arg)
         \/ DuplicateCommand(arg)
         \/ HoldsEmptyAttribute(arg) )
        => Len(svg) < Len(arg)

\* C12: for every input, the output of optimizeSvgPaths holds no two
\* white-space characters in a row, no white space between a ">" and the next
\* "<", and no white space at either end.
C12_NoExtraWhitespace ==
    LastCall = "optimizeSvgPaths" => ~ExtraWhitespace(svg)

\* the command c with each operand rounded to 1 decimal place
RoundedCommand(c) ==
    [j \in 1..Len(c) |-> IF j = 1 THEN c[1] ELSE roundCoordinates(c[j], 1)]

\* C13: optimizeSvgPaths rounds before it collapses duplicate commands, so two
\* consecutive commands with the same letter (ignoring case) and two operands
\* that are equal after rounding to 1 decimal place come out as one command,
\* the first with its operands rounded.
C13_RoundedThenCollapsed ==
    ( /\ LastCall = "optimizeSvgPaths"
      /\ WellFormed(arg)
      /\ Len(PathCommandsOf(arg)) = 2
      /\ RepeatsPrevious(<<RoundedCommand(PathCommandsOf(arg)[1]),
                           RoundedCommand(PathCommandsOf(arg)[2])>>, 2) )
        => PathCommandsOf(svg) = <<RoundedCommand(PathCommandsOf(arg)[1])>>

\* ------------------------------------------------------------------------
\* The caller of calculateCompressionRatio: src holds the two sizes it
\* measured, svg the ratio the call returned

\* the largest size measured
MaxSize == 12

InitRatio ==
    /\ src \in (0..MaxSize) \X (0..MaxSize)
    /\ svg = src
    /\ arg = <<>>
    /\ opts = DefaultOptions
    /\ hist = <<>>
    /\ state = initialState
    /\ calls = <<>>
    /\ urls = <<>>
    /\ timers = {}
    /\ now = 0

CalculateCompressionRatio ==
    /\ hist = <<>>
    /\ arg' = svg
    /\ svg' = calculateCompressionRatio(svg[1], svg[2])
    /\ hist' = <<"calculateCompressionRatio">>
    /\ UNCHANGED <<src, opts, state, calls, browser>>

NextRatio == CalculateCompressionRatio

SpecRatio == InitRatio /\ [][NextRatio]_vars

\* C14: calculateCompressionRatio(o, c) is 0 when o = 0, for every c, and
\* otherwise (o - c) / o, which is 0 when c = o, 1 when c = 0 and negative
\* exactly when c > o.
C14_CompressionRatio ==
    LastCall = "calculateCompressionRatio"
        => /\ arg[1] = 0 => svg = <<0, 1>>
           /\ arg[1] # 0
                  => /\ svg[2] > 0
                     /\ svg[1] * arg[1] = (arg[1] - arg[2]) * svg[2]
                     /\ arg[2] = arg[1] => svg = <<0, 1>>
                     /\ arg[2] = 0 => svg = <<1, 1>>
                     /\ svg[1] < 0 <=> arg[2] > arg[1]

\* calculateCompressionRatio(2, 3) returned -1/2
C14_Witness ==
    LastCall = "calculateCompressionRatio" /\ arg = <<2, 3>> /\ svg = <<-1, 2>>

\* ------------------------------------------------------------------------
\* A caller that passes formatSvgString any value: src holds the value, opts
\* the options of the call, svg the outcome of the call

FormatInputs ==
    {<<"undefined">>, <<"null">>, <<"boolean", FALSE>>, <<"boolean", TRUE>>,
     <<"number", 0>>, <<"number", 1>>, <<"string", <<>>>>}
        \cup {<<"string", s>> : s \in FormatNodes}

FormatOptions ==
    {<<"undefined">>, <<"null">>}
        \cup {<<"object", i, p>> :
                  i \in {<<>>} \cup {<<n>> : n \in 0..MaxIndent},
                  p \in {<<>>, <<TRUE>>, <<FALSE>>}}

InitFormatInput ==
    /\ src \in FormatInputs
    /\ svg = src
    /\ arg = <<>>
    /\ opts = <<"undefined">>
    /\ hist = <<>>
    /\ state = initialState
    /\ calls = <<>>
    /\ urls = <<>>
    /\ timers = {}
    /\ now = 0

FormatAnyInput ==
    \E options \in FormatOptions :
        /\ hist = <<>>
        /\ arg' = svg
        /\ svg' = CallFormatSvgString(svg, options)
        /\ opts' = options
        /\ hist' = <<"formatSvgString">>
        /\ UNCHANGED <<src, state, calls, browser>>

NextFormatInput == FormatAnyInput

SpecFormatInput == InitFormatInput /\ [][NextFormatInput]_vars

\* C15: formatSvgString returns the empty string, without throwing, for every
\* input that is the empty string, null, undefined or not a string, whatever
\* options are passed.
C15_InvalidInputReturnsEmpty ==
    (LastCall = "formatSvgString" /\ (arg[1] # "string" \/ arg[2] = <<>>))
        => svg = <<"return", <<>>>>

\* ------------------------------------------------------------------------
\* The caller of validatePngFile: src holds the file, svg the validation
\* returned

\* a name of n characters ending in extension
FileName(n, extension) == [k \in 1..(n - Len(extension)) |-> "x"] \o extension

FileNames ==
    { <<"a", ".", "p", "n", "g">>, <<"a", ".", "P", "N", "G">>, <<"a", ".", "P", "n", "g">>,
      <<"a", ".", "j", "p", "g">>, <<"p", "n", "g">>, <<"a", ".", "p", "n", "g", "x">>,
      FileName(MAX_FILENAME_LENGTH, <<".", "p", "n", "g">>),
      FileName(MAX_FILENAME_LENGTH + 1, <<".", "p", "n", "g">>),
      FileName(MAX_FILENAME_LENGTH + 1, <<".", "j", "p", "g">>) }

FileTypes == {"image/png", "image/jpeg", ""}

FileSizes == {0, 1024, MAX_FILE_SIZE - 1, MAX_FILE_SIZE, MAX_FILE_SIZE + 1, 6 * 1024 * 1024}

Files == [name : FileNames, type : FileTypes, size : FileSizes]

InitValidate ==
    /\ src \in Files
    /\ svg = src
    /\ arg = <<>>
    /\ opts = DefaultOptions
    /\ hist = <<>>
    /\ state = initialState
    /\ calls = <<>>
    /\ urls = <<>>
    /\ timers = {}
    /\ now = 0

ValidatePngFile ==
    /\ hist = <<>>
    /\ arg' = svg
    /\ svg' = validatePngFile(svg)
    /\ hist' = <<"validatePngFile">>
    /\ UNCHANGED <<src, opts, state, calls, browser>>

NextValidate == ValidatePngFile

SpecValidate == InitValidate /\ [][NextValidate]_vars

\* whether name ends with ".png", ignoring case
EndsWithPng(name) ==
    /\ Len(name) >= 4
    /\ name[Len(name) - 3] = "."
    /\ name[Len(name) - 2] \in {"p", "P"}
    /\ name[Len(name) - 1] \in {"n", "N"}
    /\ name[Len(name)] \in {"g", "G"}

\* the checks file fails, in the order type, size, extension, name
FailedChecks(file) ==
    (IF file.type # "image/png" THEN {<<1, "type">>} ELSE {})
        \cup (IF file.size > 5 * 1024 * 1024 THEN {<<2, "size">>} ELSE {})
        \cup (IF ~EndsWithPng(file.name) THEN {<<3, "extension">>} ELSE {})
        \cup (IF Len(file.name) > 100 THEN {<<4, "name">>} ELSE {})

\* the check a message reports
CheckOf(message) ==
    CASE message = "Please select a PNG file" -> <<1, "type">>
      [] message = "File size must be less than 5MB" -> <<2, "size">>
      [] message = "Invalid file extension" -> <<3, "extension">>
      [] message = "Filename too long" -> <<4, "name">>
      [] OTHER -> <<0, "">>

\* C19: validatePngFile(file).isValid is true exactly when file.type is
\* 'image/png', file.size is at most 5*1024*1024, file.name ends with '.png'
\* ignoring case and file.name has at most 100 characters; errors holds one
\* message per failed check in the order type, size, extension, name, and
\* isValid holds iff errors is empty.
C19_ValidatePngFile ==
    LastCall = "validatePngFile"
        => /\ svg.isValid <=> ( /\ arg.type = "image/png"
                                /\ arg.size <= 5 * 1024 * 1024
                                /\ EndsWithPng(arg.name)
                                /\ Len(arg.name) <= 100 )
           /\ {CheckOf(svg.errors[k]) : k \in 1..Len(svg.errors)} = FailedChecks(arg)
           /\ Len(svg.errors) = Cardinality(FailedChecks(arg))
           /\ \A j, k \in 1..Len(svg.errors) :
                  j < k => CheckOf(svg.errors[j])[1] < CheckOf(svg.errors[k])[1]
           /\ svg.isValid <=> svg.errors = <<>>

\* a PNG of exactly 5*1024*1024 bytes with a name of exactly 100 characters
\* was accepted
C19_Witness ==
    /\ LastCall = "validatePngFile"
    /\ arg.type = "image/png"
    /\ arg.size = 5 * 1024 * 1024
    /\ Len(arg.name) = 100
    /\ svg = [isValid |-> TRUE, errors |-> <<>>]

\* ------------------------------------------------------------------------
\* The host of useImageConverter.  calls[k] is the k-th call of convertFile:
\* its file, and the promise convertPngToSvg returned to it (null when the
\* call did not reach convertPngToSvg).  hist holds the events so far: the
\* calls of convertFile and reset, and the settling of each promise.

\* the calls of convertFile
MaxConversions == 2

\* the calls of reset
MaxResets == 2

HookFiles ==
    { [name |-> <<"a", ".", "p", "n", "g">>, type |-> "image/png", size |-> 1024],
      [name |-> <<"b", ".", "p", "n", "g">>, type |-> "image/png", size |-> 2048],
      [name |-> <<"c", ".", "j", "p", "g">>, type |-> "image/jpeg", size |-> 1024],
      [name |-> <<"d", ".", "p", "n", "g">>, type |-> "image/png", size |-> 6 * 1024 * 1024] }

\* the messages convertPngToSvg rejects with
ErrorMessages == {"Conversion failed", "PROCESSING_TIMEOUT"}

\* the value the promise of call k resolves with
ConversionResult(k) == [conversion |-> k]

Event(op, k, message) == [op |-> op, call |-> k, message |-> message]

InitHook ==
    /\ src = <<>>
    /\ svg = <<>>
    /\ arg = <<>>
    /\ opts = DefaultOptions
    /\ hist = <<>>
    /\ state = initialState
    /\ calls = <<>>
    /\ urls = <<>>
    /\ timers = {}
    /\ now = 0

\* convertFile(file), up to its return or its await
ConvertFile ==
    \E file \in HookFiles :
        /\ Len(calls) < MaxConversions
        /\ IF ~validatePngFile(file).isValid
           THEN /\ state' = Rejected(Started(state), validatePngFile(file))
                /\ calls' = Append(calls, [file |-> file, promise |-> Null])
           ELSE /\ state' = Validated(Started(state))
                /\ calls' = Append(calls, [file |-> file, promise |-> <<"pending">>])
        /\ hist' = Append(hist, Event("convertFile", Len(calls) + 1, ""))
        /\ UNCHANGED <<src, svg, arg, opts, browser>>

\* the promise of call k resolves and convertFile resumes after its await
Resolve ==
    \E k \in 1..Len(calls) :
        /\ calls[k].promise = <<"pending">>
        /\ state' = Converted(state, calls[k].file, ConversionResult(k))
        /\ calls' = [calls EXCEPT ![k].promise = <<"resolved">>]
        /\ hist' = Append(hist, Event("resolve", k, ""))
        /\ UNCHANGED <<src, svg, arg, opts, browser>>

\* the promise of call k rejects and convertFile resumes in its catch block
Reject ==
    \E k \in 1..Len(calls), message \in ErrorMessages :
        /\ calls[k].promise = <<"pending">>
        /\ state' = Failed(state, message)
        /\ calls' = [calls EXCEPT ![k].promise = <<"rejected">>]
        /\ hist' = Append(hist, Event("reject", k, message))
        /\ UNCHANGED <<src, svg, arg, opts, browser>>

\* reset()
Reset ==
    /\ Cardinality({k \in 1..Len(hist) : hist[k].op = "reset"}) < MaxResets
    /\ state' = initialState
    /\ hist' = Append(hist, Event("reset", 0, ""))
    /\ UNCHANGED <<src, svg, arg, opts, calls, browser>>

NextHook == ConvertFile \/ Resolve \/ Reject \/ Reset

SpecHook == InitHook /\ [][NextHook]_vars

\* the last event; a reset before the first
LastEvent == IF hist = <<>> THEN Event("reset", 0, "") ELSE hist[Len(hist)]

\* C16: if convertFile(B) is called while an earlier convertFile(A) is still
\* in flight, then once both conversions have completed the hook's file and
\* result are those of B, whichever of the two completed last.
C16_LaterConversionWins ==
    ( /\ Len(hist) = 4
      /\ hist[1].op = "convertFile" /\ hist[2].op = "convertFile"
      /\ calls[1].file # calls[2].file
      /\ calls[1].promise = <<"resolved">> /\ calls[2].promise = <<"resolved">> )
        => /\ state.file = <<calls[2].file>>
           /\ state.result = <<ConversionResult(2)>>

\* C17: if reset() is called while a conversion is in flight, the hook is in
\* its initial state immediately and stays there when that conversion later
\* completes: file and result remain null, isProcessing false and progress 0.
C17_ResetDiscardsConversion ==
    ( /\ Len(calls) = 1
      /\ calls[1].promise # Null
      /\ Len(hist) >= 2
      /\ hist[1].op = "convertFile" /\ hist[2].op = "reset" )
        => /\ state.file = Null
           /\ state.result = Null
           /\ ~state.isProcessing
           /\ state.progress = 0

\* C18: convertFile on a file that fails validatePngFile never calls
\* convertPngToSvg, sets error to the first validation error message, and
\* ends with isProcessing = false and progress = 0.
C18_InvalidFileRejected ==
    /\ \A k \in 1..Len(calls) :
           ~validatePngFile(calls[k].file).isValid => calls[k].promise = Null
    /\ ( /\ LastEvent.op = "convertFile"
         /\ ~validatePngFile(calls[LastEvent.call].file).isValid )
           => /\ state.error = <<validatePngFile(calls[LastEvent.call].file).errors[1]>>
              /\ ~state.isProcessing
              /\ state.progress = 0

\* convertFile rejected c.jpg, which fails two checks, while the conversion
\* of an earlier file was in flight
C18_Witness ==
    /\ Len(calls) = 2
    /\ LastEvent = Event("convertFile", 2, "")
    /\ calls[1].promise = <<"pending">>
    /\ calls[2].file.type = "image/jpeg"
    /\ calls[2].promise = Null
    /\ state.error = <<"Please select a PNG file">>
    /\ ~state.isProcessing

\* C20: when convertPngToSvg rejects, convertFile leaves file = null, result
\* = null, isProcessing = false, progress = 0 and error = the rejection
\* message; a later convertFile that succeeds sets error back to null with
\* file and result set and progress = 100.
C20_ErrorSetThenCleared ==
    /\ LastEvent.op = "reject"
           => state = [file |-> Null, result |-> Null, isProcessing |-> FALSE,
                       error |-> <<LastEvent.message>>, progress |-> 0]
    /\ ( /\ Len(hist) >= 3
         /\ hist[Len(hist) - 2].op = "reject"
         /\ hist[Len(hist) - 1].op = "convertFile"
         /\ LastEvent = Event("resolve", hist[Len(hist) - 1].call, "") )
           => /\ state.error = Null
              /\ state.file = <<calls[LastEvent.call].file>>
              /\ state.result = <<ConversionResult(LastEvent.call)>>
              /\ state.progress = 100

\* the first conversion was rejected, the second, called afterwards, succeeded
C20_Witness ==
    /\ Len(hist) = 4
    /\ hist[2].op = "reject"
    /\ hist[3].op = "convertFile"
    /\ hist[4] = Event("resolve", 2, "")
    /\ state.error = Null
    /\ state.progress = 100

\* C28: in every reachable state of useImageConverter, under any
\* interleaving of convertFile calls, completions and reset, file and result
\* are either both null or both non-null, and a non-null result is the one
\* produced by converting the stored file.
C28_FileAndResultTogether ==
    /\ state.file = Null <=> state.result = Null
    /\ state.result # Null
           => \E k \in 1..Len(calls) :
                  /\ calls[k].promise = <<"resolved">>
                  /\ state.file = <<calls[k].file>>
                  /\ state.result = <<ConversionResult(k)>>

\* the first conversion resolved while the second, of another file, was
\* still in flight
C28_Witness ==
    /\ Len(calls) = 2
    /\ calls[1].file # calls[2].file
    /\ calls[1].promise = <<"resolved">>
    /\ calls[2].promise = <<"pending">>
    /\ LastEvent = Event("resolve", 1, "")
    /\ state.file = <<calls[1].file>>
    /\ state.result = <<ConversionResult(1)>>

\* C29: in every reachable state of useImageConverter, isProcessing is true
\* exactly when at least one convertFile call has started and not yet
\* settled, including when several calls overlap and when reset is called in
\* between.
C29_ProcessingWhileInFlight ==
    state.isProcessing <=> \E k \in 1..Len(calls) : calls[k].promise = <<"pending">>

\* ------------------------------------------------------------------------
\* The Home page: it renders the state of useImageConverter, and the user
\* acts through what it renders

\* the elements Home renders
Rendered(s) ==
    IF s.file = Null
    THEN {"DropZone"}
    ELSE (IF s.isProcessing THEN {"spinner"} ELSE {})
             \cup (IF s.error # Null THEN {"error-message"} ELSE {})
             \cup (IF s.result # Null
                   THEN {"image-preview", "SvgCodeViewer", "DownloadButton"} ELSE {})
             \cup {"Reset"}

\* a file is dropped on the DropZone
HandleFileUpload == "DropZone" \in Rendered(state) /\ ConvertFile

\* the Reset button, or the preview's reset, is clicked
HandleReset == "Reset" \in Rendered(state) /\ Reset

NextHome == HandleFileUpload \/ Resolve \/ Reject \/ HandleReset

SpecHome == InitHook /\ [][NextHome]_vars

\* C21: in the Home page, whenever a conversion is in progress the spinner is
\* rendered, whenever the last conversion failed the error message and a
\* Reset button are rendered, and the preview is rendered only when a result
\* exists.
C21_HomeRendersState ==
    /\ state.isProcessing => "spinner" \in Rendered(state)
    /\ LastEvent.op = "reject" => {"error-message", "Reset"} \subseteq Rendered(state)
    /\ "image-preview" \in Rendered(state) => state.result # Null

\* ------------------------------------------------------------------------
\* useClipboard(delay).  state holds the hook's state, error and isSupported;
\* opts the delay; calls[k] is the k-th call of copyToClipboard, with the
\* promise writeText returned to it (null when the call did not reach
\* writeText); hist holds the calls that completed, each with its outcome and
\* the time it completed at; a timer is [id, at, resets].

\* the calls of copyToClipboard
MaxCopies == 2

\* the largest delay
MaxDelay == 2

\* the time the clock stops at
MaxTime == 5

\* setTimeout(callback, delay), the callback resetting the fields in resets
SetTimeout(resets) ==
    timers \cup {[id |-> Cardinality({k \in 1..Len(calls) : calls[k].promise # <<"pending">>}) + 1,
                  at |-> now + opts.delay, resets |-> resets]}

Completed(k, outcome) == [call |-> k, outcome |-> outcome, at |-> now]

InitClipboard ==
    /\ src = <<>>
    /\ svg = <<>>
    /\ arg = <<>>
    /\ opts \in [delay : 1..MaxDelay]
    /\ hist = <<>>
    /\ state \in [state : {"READY"}, error : {Null}, isSupported : BOOLEAN]
    /\ calls = <<>>
    /\ urls = <<>>
    /\ timers = {}
    /\ now = 0

\* copyToClipboard(text), up to its return or its await
CopyToClipboard ==
    /\ Len(calls) < MaxCopies
    /\ IF ~state.isSupported
       THEN /\ state' = [state EXCEPT
                             !.error = <<"Clipboard API not supported in this environment">>,
                             !.state = "ERROR"]
            /\ calls' = Append(calls, [promise |-> Null])
            /\ timers' = SetTimeout({"state", "error"})
            /\ hist' = Append(hist, Completed(Len(calls) + 1, "ERROR"))
       ELSE /\ calls' = Append(calls, [promise |-> <<"pending">>])
            /\ UNCHANGED <<state, timers, hist>>
    /\ UNCHANGED <<src, svg, arg, opts, urls, now>>

\* writeText of call k resolves and copyToClipboard resumes after its await
WriteResolved ==
    \E k \in 1..Len(calls) :
        /\ calls[k].promise = <<"pending">>
        /\ state' = [state EXCEPT !.state = "SUCCESS", !.error = Null]
        /\ calls' = [calls EXCEPT ![k].promise = <<"resolved">>]
        /\ timers' = SetTimeout({"state"})
        /\ hist' = Append(hist, Completed(k, "SUCCESS"))
        /\ UNCHANGED <<src, svg, arg, opts, urls, now>>

\* writeText of call k rejects and copyToClipboard resumes in its catch block
WriteRejected ==
    \E k \in 1..Len(calls) :
        /\ calls[k].promise = <<"pending">>
        /\ state' = [state EXCEPT !.error = <<"Clipboard access denied">>, !.state = "ERROR"]
        /\ calls' = [calls EXCEPT ![k].promise = <<"rejected">>]
        /\ timers' = SetTimeout({"state", "error"})
        /\ hist' = Append(hist, Completed(k, "ERROR"))
        /\ UNCHANGED <<src, svg, arg, opts, urls, now>>

\* the earliest timeout that is due fires
TimeoutFires ==
    \E timer \in timers :
        /\ timer.at <= now
        /\ \A other \in timers : <<timer.at, timer.id>> = <<other.at, other.id>>
                                     \/ timer.at < other.at
                                     \/ (timer.at = other.at /\ timer.id < other.id)
        /\ state' = [state EXCEPT !.state = "READY",
                                  !.error = IF "error" \in timer.resets THEN Null ELSE @]
        /\ timers' = timers \ {timer}
        /\ UNCHANGED <<src, svg, arg, opts, hist, calls, urls, now>>

\* time passes, once every timeout that is due has fired
Tick ==
    /\ now < MaxTime
    /\ \A timer \in timers : timer.at > now
    /\ now' = now + 1
    /\ UNCHANGED <<src, svg, arg, opts, hist, state, calls, urls, timers>>

NextClipboard == CopyToClipboard \/ WriteResolved \/ WriteRejected \/ TimeoutFires \/ Tick

SpecClipboard == InitClipboard /\ [][NextClipboard]_vars

\* C22: after every copyToClipboard call completes, the hook's state is
\* SUCCESS or ERROR according to that call's outcome and stays so until delay
\* after that call, then becomes READY with error null, also for a call made
\* before the delay of an earlier call has elapsed.
C22_StateHeldForDelay ==
    hist # <<>>
        => /\ now < hist[Len(hist)].at + opts.delay
                  => state.state = hist[Len(hist)].outcome
           /\ ( /\ now >= hist[Len(hist)].at + opts.delay
                /\ \A timer \in timers : timer.at > now )
                  => state.state = "READY" /\ state.error = Null

\* ------------------------------------------------------------------------
\* The caller of downloadSvgFile: src holds the arguments and the browser call
\* that fails, svg what the caller sees

DownloadNames ==
    {<<"a", ".", "s", "v", "g">>, <<"c", "o", "n", "v", "e", "r", "t", "e", "d", ".", "s", "v", "g">>, <<>>}

InitDownload ==
    /\ src \in [svgString : PathDocuments, filename : DownloadNames,
                failing : {"none"} \cup {DownloadSteps[k] : k \in 1..Len(DownloadSteps)}]
    /\ svg = <<>>
    /\ arg = <<>>
    /\ opts = DefaultOptions
    /\ hist = <<>>
    /\ state = initialState
    /\ calls = <<>>
    /\ urls = <<>>
    /\ timers = {}
    /\ now = 0

DownloadSvgFile ==
    /\ hist = <<>>
    /\ arg' = src
    /\ svg' = downloadSvgFile(src.svgString, src.filename, src.failing).outcome
    /\ urls' = downloadSvgFile(src.svgString, src.filename, src.failing).urls
    /\ hist' = <<"downloadSvgFile">>
    /\ UNCHANGED <<src, opts, state, calls, timers, now>>

NextDownload == DownloadSvgFile

SpecDownload == InitDownload /\ [][NextDownload]_vars

\* C23: downloadSvgFile does not throw to its caller when creating, attaching
\* or clicking the download link fails.
C23_DownloadFailureHandled ==
    (LastCall = "downloadSvgFile" /\ arg.failing \in {"createElement", "appendChild", "click"})
        => svg = <<"return">>

\* ------------------------------------------------------------------------
\* The caller of generateFilename: src holds the original name, svg the name
\* returned

NameLengths == {5, 96, 99, 100, 101, 104, 200}

NamePrefixes == {<<>>, <<"<", "?">>, <<"a", "/", "b", ".", "c">>}

NameExtensions == {<<>>, <<".", "p", "n", "g">>, <<".", "P", "N", "G">>}

OriginalNames ==
    {<<"undefined">>, <<"null">>, <<"string", <<>>>>}
        \cup {<<"string", prefix \o FileName(n, extension)>> :
                  prefix \in NamePrefixes, n \in NameLengths, extension \in NameExtensions}

InitFilename ==
    /\ src \in OriginalNames
    /\ svg = <<>>
    /\ arg = <<>>
    /\ opts = DefaultOptions
    /\ hist = <<>>
    /\ state = initialState
    /\ calls = <<>>
    /\ urls = <<>>
    /\ timers = {}
    /\ now = 0

GenerateFilename ==
    /\ hist = <<>>
    /\ arg' = src
    /\ svg' = generateFilename(src)
    /\ hist' = <<"generateFilename">>
    /\ UNCHANGED <<src, opts, state, calls, browser>>

NextFilename == GenerateFilename

SpecFilename == InitFilename /\ [][NextFilename]_vars

\* C24: for every original name, generateFilename returns a name that ends
\* with '.svg', contains none of the characters < > : " | ? *, and has fewer
\* than 100 characters; an empty or missing name yields 'converted.svg'.
C24_FilenameSafe ==
    LastCall = "generateFilename"
        => /\ Len(svg) >= 4 /\ SubSeq(svg, Len(svg) - 3, Len(svg)) = <<".", "s", "v", "g">>
           /\ \A k \in 1..Len(svg) : svg[k] \notin {"<", ">", ":", "\"", "|", "?", "*"}
           /\ Len(svg) < 100
           /\ (arg[1] # "string" \/ arg[2] = <<>>)
                  => svg = <<"c", "o", "n", "v", "e", "r", "t", "e", "d", ".", "s", "v", "g">>

\* ------------------------------------------------------------------------
\* The caller of countSvgPoints: src holds the document, svg the count

CountParts ==
    { \* <path d="M1 1 L2 3z"/>
      <<"<", "p", "a", "t", "h", " ", "d", "=", "\"", "M", "1", " ", "1", " ", "L", "2", " ",
        "3", "z", "\"", "/", ">">>,
      \* <path id="Za" d="m1 1"/>
      <<"<", "p", "a", "t", "h", " ", "i", "d", "=", "\"", "Z", "a", "\"", " ", "d", "=", "\"",
        "m", "1", " ", "1", "\"", "/", ">">>,
      \* <circle r="2"/>
      <<"<", "c", "i", "r", "c", "l", "e", " ", "r", "=", "\"", "2", "\"", "/", ">">>,
      \* <g class="t"/>
      <<"<", "g", " ", "c", "l", "a", "s", "s", "=", "\"", "t", "\"", "/", ">">>,
      \* <path d=""/>
      <<"<", "p", "a", "t", "h", " ", "d", "=", "\"", "\"", "/", ">">> }

CountDocuments ==
    {<<>>} \cup { <<"<", "s", "v", "g", ">">> \o Flatten(parts) \o <<"<", "/", "s", "v", "g", ">">> :
                    parts \in SeqsUpTo(CountParts, MaxParts) }

InitCount ==
    /\ src \in CountDocuments
    /\ svg = <<>>
    /\ arg = <<>>
    /\ opts = DefaultOptions
    /\ hist = <<>>
    /\ state = initialState
    /\ calls = <<>>
    /\ urls = <<>>
    /\ timers = {}
    /\ now = 0

CountSvgPoints ==
    /\ hist = <<>>
    /\ arg' = src
    /\ svg' = countSvgPoints(src)
    /\ hist' = <<"countSvgPoints">>
    /\ UNCHANGED <<src, opts, state, calls, browser>>

NextCount == CountSvgPoints

SpecCount == InitCount /\ [][NextCount]_vars

\* the positions of s inside the value of an attribute named d
InPathData(s) ==
    {k \in 1..Len(s) :
        \E p \in 2..k :
            /\ s[p - 1] \in Space
            /\ StartsAt(s, p, <<"d", "=", "\"">>)
            /\ p + 2 < k
            /\ \A j \in (p + 3)..k : s[j] # "\""}

\* C26: countSvgPoints(s) equals the number of path command letters (M L H V
\* C S Q T A Z, either case) inside the values of path d attributes of s, and
\* is 0 when s is empty or has no d attribute; letters in the values of other
\* attributes, such as id, are not counted.
C26_CountsPathCommands ==
    LastCall = "countSvgPoints"
        => svg = Cardinality({k \in InPathData(arg) : CommandLetter(arg[k])})

\* ------------------------------------------------------------------------
\* imageConverter: one call convertPngToSvg(file).  src holds the file; state
\* the promise the call returned (null before the call, then pending,
\* resolved or rejected, with the message it rejected with or the originalSize
\* of the result it resolved with; the traced SVG is left out) and the image
\* being loaded; urls the object URLs created; timers the loading timeout
\* while it is set.  The image loads, fails or stays loading for any time, so
\* the timeout may fire whenever it is set.

\* resolve and reject have no effect on a promise that has settled
Settle(s, promise, message) ==
    IF s.promise = <<"pending">> THEN [s EXCEPT !.promise = promise, !.message = message] ELSE s

\* what can make img.onload throw
LoadFailures ==
    {"Conversion failed: Cannot get canvas context",
     "Conversion failed: ImageTracerJS not available or not properly loaded",
     "Conversion failed: ImageTracerJS failed to generate SVG"}

InitConvert ==
    /\ src \in Files
    /\ svg = <<>>
    /\ arg = <<>>
    /\ opts = DefaultOptions
    /\ hist = <<>>
    /\ state = [promise |-> Null, message |-> "", value |-> Null, image |-> "none"]
    /\ calls = <<>>
    /\ urls = <<>>
    /\ timers = {}
    /\ now = 0

\* convertPngToSvg(file): the executor of the promise, run to its end;
\* createObjectURL may throw
ConvertPngToSvg ==
    /\ state.promise = Null
    /\ \/ /\ src.type # "image/png"
          /\ state' = [state EXCEPT !.promise = <<"rejected">>, !.message = "Invalid PNG file"]
          /\ UNCHANGED <<urls, timers>>
       \/ /\ src.type = "image/png"
          /\ state' = [state EXCEPT !.promise = <<"pending">>, !.image = "loading"]
          /\ timers' = {[id |-> 1, at |-> now + 30000, resets |-> {}]}
          /\ urls' = <<"live">>
       \/ /\ src.type = "image/png"
          /\ state' = [state EXCEPT !.promise = <<"rejected">>,
                                    !.message = "Conversion failed: createObjectURL"]
          /\ timers' = {[id |-> 1, at |-> now + 30000, resets |-> {}]}
          /\ UNCHANGED urls
    /\ hist' = Append(hist, "convertPngToSvg")
    /\ UNCHANGED <<src, svg, arg, opts, calls, now>>

\* img.onload, with the conversion succeeding
ImageLoaded ==
    /\ state.image = "loading"
    /\ timers' = {}
    /\ urls' = [k \in 1..Len(urls) |-> "revoked"]
    /\ state' = [Settle(state, <<"resolved">>, "") EXCEPT
                     !.image = "loaded",
                     !.value = IF state.promise = <<"pending">>
                               THEN <<[originalSize |-> src.size]>> ELSE @]
    /\ hist' = Append(hist, "onload")
    /\ UNCHANGED <<src, svg, arg, opts, calls, now>>

\* img.onload, with the canvas or the tracer failing
ConversionFails ==
    \E failure \in LoadFailures :
        /\ state.image = "loading"
        /\ timers' = {}
        /\ state' = [Settle(state, <<"rejected">>, failure) EXCEPT !.image = "loaded"]
        /\ hist' = Append(hist, "onload")
        /\ UNCHANGED <<src, svg, arg, opts, calls, urls, now>>

\* img.onerror
ImageError ==
    /\ state.image = "loading"
    /\ timers' = {}
    /\ state' = [Settle(state, <<"rejected">>, "Failed to load image") EXCEPT !.image = "failed"]
    /\ hist' = Append(hist, "onerror")
    /\ UNCHANGED <<src, svg, arg, opts, calls, urls, now>>

\* the loading timeout fires
LoadingTimeout ==
    /\ timers # {}
    /\ timers' = {}
    /\ state' = Settle(state, <<"rejected">>, "Image loading timeout")
    /\ hist' = Append(hist, "timeout")
    /\ UNCHANGED <<src, svg, arg, opts, calls, urls, now>>

NextConvert == ConvertPngToSvg \/ ImageLoaded \/ ConversionFails \/ ImageError \/ LoadingTimeout

SpecConvert == InitConvert /\ [][NextConvert]_vars

\* C25: every object URL that convertPngToSvg creates is revoked by the time
\* its promise settles, on every path: successful conversion, tracer or
\* canvas failure, image load error, and image load timeout.
C25_UrlsRevokedWhenSettled ==
    state.promise \in {<<"resolved">>, <<"rejected">>}
        => \A k \in 1..Len(urls) : urls[k] = "revoked"

\* ------------------------------------------------------------------------
\* The ImagePreview component.  state holds whether it is mounted, its
\* originalFile prop (null or a file), its originalUrl and the cleanup its
\* effect returned (null, or the index in urls of the URL to revoke); hist the
\* renders and unmounts so far.

\* the renders and unmounts
MaxRenders == 4

\* the files passed as originalFile
PreviewFiles == {<<1>>, <<2>>}

\* an effect whose cleanup does nothing
KeepUrl(us, cleanup) == us

\* the cleanup of the effect: URL.revokeObjectURL(url)
Cleanup(us, cleanup) == IF cleanup = Null THEN us ELSE [us EXCEPT ![cleanup[1]] = "revoked"]

\* the effect, run for originalFile after the cleanup of the previous one
Effect(s, us, originalFile) ==
    IF originalFile = Null
    THEN [state |-> [s EXCEPT !.mounted = TRUE, !.originalFile = Null, !.cleanup = Null],
          urls |-> Cleanup(us, s.cleanup)]
    ELSE [state |-> [s EXCEPT !.mounted = TRUE, !.originalFile = originalFile,
                              !.originalUrl = <<Len(us) + 1>>, !.cleanup = <<Len(us) + 1>>],
          urls |-> Append(Cleanup(us, s.cleanup), "live")]

InitPreview ==
    /\ src = <<>>
    /\ svg = <<>>
    /\ arg = <<>>
    /\ opts = DefaultOptions
    /\ hist = <<>>
    /\ state = [mounted |-> FALSE, originalFile |-> Null, originalUrl |-> Null, cleanup |-> Null]
    /\ calls = <<>>
    /\ urls = <<>>
    /\ timers = {}
    /\ now = 0

\* the component mounts: useState(null), then the effect runs
Mount ==
    \E originalFile \in PreviewFiles \cup {Null} :
        /\ Len(hist) < MaxRenders
        /\ ~state.mounted
        /\ state' = Effect([state EXCEPT !.originalUrl = Null, !.cleanup = Null],
                           urls, originalFile).state
        /\ urls' = Effect([state EXCEPT !.originalUrl = Null, !.cleanup = Null],
                          urls, originalFile).urls
        /\ hist' = Append(hist, [op |-> "mount", originalFile |-> originalFile])
        /\ UNCHANGED <<src, svg, arg, opts, calls, timers, now>>

\* the component renders with another originalFile: the dependency of the
\* effect changed, so its cleanup and then the effect run
ChangeFile ==
    \E originalFile \in PreviewFiles \cup {Null} :
        /\ Len(hist) < MaxRenders
        /\ state.mounted
        /\ originalFile # state.originalFile
        /\ state' = Effect(state, urls, originalFile).state
        /\ urls' = Effect(state, urls, originalFile).urls
        /\ hist' = Append(hist, [op |-> "change", originalFile |-> originalFile])
        /\ UNCHANGED <<src, svg, arg, opts, calls, timers, now>>

\* the component renders with the same originalFile: the effect does not run
Rerender ==
    /\ Len(hist) < MaxRenders
    /\ state.mounted
    /\ hist' = Append(hist, [op |-> "render", originalFile |-> state.originalFile])
    /\ UNCHANGED <<src, svg, arg, opts, state, calls, browser>>

\* the component unmounts: the cleanup runs
Unmount ==
    /\ Len(hist) < MaxRenders
    /\ state.mounted
    /\ state' = [state EXCEPT !.mounted = FALSE, !.cleanup = Null]
    /\ urls' = Cleanup(urls, state.cleanup)
    /\ hist' = Append(hist, [op |-> "unmount", originalFile |-> state.originalFile])
    /\ UNCHANGED <<src, svg, arg, opts, calls, timers, now>>

NextPreview == Mount \/ ChangeFile \/ Rerender \/ Unmount

SpecPreview == InitPreview /\ [][NextPreview]_vars

\* the object URLs that are live
Live == {k \in 1..Len(urls) : urls[k] = "live"}

\* C27: a mounted ImagePreview holds at most one live object URL at a time:
\* it creates one per originalFile, revokes it when originalFile changes or
\* the component unmounts, and after unmount no URL it created is left
\* unrevoked, for every sequence of mount, file change and unmount.
C27_OneLiveUrl ==
    /\ Cardinality(Live) <= 1
    /\ (state.mounted /\ state.originalFile # Null) => Live = {state.originalUrl[1]}
    /\ (state.mounted /\ state.originalFile = Null) => Live = {}
    /\ ~state.mounted => Live = {}
    /\ Len(urls) = Cardinality({k \in 1..Len(hist) :
                                    /\ hist[k].op \in {"mount", "change"}
                                    /\ hist[k].originalFile # Null})

\* the component was mounted with a file, given another file, and unmounted
C27_Witness ==
    /\ Len(hist) = 3
    /\ hist[1].op = "mount" /\ hist[2].op = "change" /\ hist[3].op = "unmount"
    /\ urls = <<"revoked", "revoked">>
    /\ ~state.mounted

\* s without its line breaks and the spaces that follow each of them
RECURSIVE StripBreaks(_)
StripBreaks(s) ==
    IF IndexOf(s, <<"\n">>, 1) = 0 THEN s
    ELSE SubSeq(s, 1, IndexOf(s, <<"\n">>, 1) - 1)
             \o StripBreaks(Slice(s, SkipWhile(s, IndexOf(s, <<"\n">>, 1) + 1, {" "}), Len(s) + 1))

\* C30: formatSvgString only inserts line breaks and indentation: for every
\* non-empty input string without line breaks, deleting from the output each
\* inserted newline together with the indentation spaces that follow it
\* yields exactly the trimmed input.
C30_OnlyBreaksInserted ==
    (LastCall = "formatSvgString" /\ arg # <<>> /\ ~Contains(arg, <<"\n">>))
        => StripBreaks(svg) = Trim(arg)

====
